---------------------------- MODULE Spec2Model ----------------------------
(***************************************************************************)
(* Evergreen Note Cultivator: quality scoring, maturity progression, the   *)
(* bounded assessment history and the callout codec, as state machines.    *)
(*                                                                         *)
(* One module, several specifications over the same variables:             *)
(*   SpecLevel     MaturityLevel's pure functions                          *)
(*   SpecScore     QualityDimension / QualityScore                         *)
(*   SpecAssessment NoteAssessment                                         *)
(*   SpecUseCase   UpdateMaturityUseCase.execute on any input              *)
(*   SpecMaturity  the modal and the sidebar updating a note's maturity    *)
(*   SpecHistory   AssessmentHistoryService and the modal's evaluation run *)
(*   SpecCodec     generateAssessmentCallout / parseAssessmentCallout      *)
(*   SpecStore     AssessmentHistoryService with failing load and save     *)
(*   SpecNote      the sidebar saving the callout to a note and loading it *)
(*   SpecAssess    AssessNoteQualityUseCase.execute on a provider response *)
(*   SpecRuns      evaluation runs of the modal and the sidebar            *)
(*   SpecGrade     QualityScore.getGrade                                   *)
(*   SpecExtremes  getWeakestDimension / getStrongestDimension             *)
(*   SpecSidebar   the sidebar under file-open events and pending awaits   *)
(*   SpecData      saveSettings and the history save on the plugin data    *)
(*   SpecOverlap   overlapping initialize() and addRecord() calls          *)
(* A specification leaves the variables of the other parts at their        *)
(* initial values.                                                         *)
(***************************************************************************)
EXTENDS Integers, Sequences, FiniteSets, TLC

VARIABLES
    \* --- SpecLevel
    probe,          \* two scores and the stages fromQualityScore gave them
    \* --- SpecScore
    rawScores,      \* the raw score of each dimension, in tenths of a point
    supplied,       \* the order (and choice) of dimension types handed to a constructor
    qs,             \* the QualityScore built last: None, Thrown or an object
    assessment,     \* the NoteAssessment built last, or None
    \* --- SpecUseCase, SpecMaturity
    growthStage,    \* the stage persisted in the note's frontmatter
    viewAssessment, \* the assessment each view holds: modal |-> .., sidebar |-> ..
    request,        \* the input of the last UpdateMaturityUseCase.execute
    output,         \* what that execute returned
    repoCall,       \* the level execute handed to updateMaturityLevel, or None
    \* --- SpecHistory
    maxPerNote,     \* the cap the service was constructed with
    stored,         \* data.assessmentHistory in plugin storage, or None
    initialized,    \* AssessmentHistoryService.initialized
    history,        \* AssessmentHistoryService.history: notePath -> records
    entered,        \* log: the storage at construction, the addRecord calls and the records pushed, per note
    nextId,         \* the number of records built so far (ids are unique)
    lastDelta,      \* the last calculateDelta call: its arguments and its result
    \* --- SpecCodec
    codecInput,     \* the assessment handed to generateAssessmentCallout
    callout,        \* the text it produced (a sequence of characters), or None
    decoded,        \* what parseAssessmentCallout made of that text, or None
    content,        \* the text of the note the sidebar saves to and loads from, or None
    \* --- the plugin and its views while asynchronous calls are under way
    settings,       \* plugin.settings in memory and the plugin data in storage, or None
    sidebar,        \* CultivatorView: currentFile, lastAssessment and what each is from, or None
    inflight        \* the asynchronous calls that have begun and not ended, each with its locals and its position

levelVars   == <<probe>>
scoreVars   == <<rawScores, supplied, qs, assessment>>
matVars     == <<growthStage, viewAssessment, request, output, repoCall>>
historyVars == <<maxPerNote, stored, initialized, history, entered, nextId, lastDelta>>
codecVars   == <<codecInput, callout, decoded, content>>
pluginVars  == <<settings, sidebar, inflight>>
vars        == <<levelVars, scoreVars, matVars, historyVars, codecVars, pluginVars>>

\* No object (null / undefined), and the outcome of a constructor that threw.
None   == [kind |-> "none"]
Thrown == [kind |-> "thrown"]
\* An absent string (an undefined frontmatter value) and an absent number.
Absent  == "absent"
NoScore == -1

Max(a, b) == IF a >= b THEN a ELSE b
Min(a, b) == IF a <= b THEN a ELSE b

\* The elements of a sequence.
Range(s) == {s[i] : i \in 1..Len(s)}

-----------------------------------------------------------------------------
(***************************************************************************)
(* MaturityLevel                                                           *)
(***************************************************************************)

Levels == {"seed", "sprout", "tree", "evergreen"}

MATURITY_CONFIGS ==
    [seed      |-> [level |-> "seed",      displayName |-> "Seed",      minQualityScore |-> 0,  order |-> 1],
     sprout    |-> [level |-> "sprout",    displayName |-> "Sprout",    minQualityScore |-> 40, order |-> 2],
     tree      |-> [level |-> "tree",      displayName |-> "Tree",      minQualityScore |-> 70, order |-> 3],
     evergreen |-> [level |-> "evergreen", displayName |-> "Evergreen", minQualityScore |-> 90, order |-> 4]]

minQualityScore(level) == MATURITY_CONFIGS[level].minQualityScore
order(level)           == MATURITY_CONFIGS[level].order

\* MaturityLevel.default()
defaultLevel == "seed"

\* A plausible slip: the tree threshold compared with > instead of >=.
fromQualityScore_strictTree(score) ==
    IF score >= MATURITY_CONFIGS.evergreen.minQualityScore THEN "evergreen"
    ELSE IF score > MATURITY_CONFIGS.tree.minQualityScore THEN "tree"
    ELSE IF score >= MATURITY_CONFIGS.sprout.minQualityScore THEN "sprout"
    ELSE "seed"

\* MaturityLevel.fromQualityScore
fromQualityScore(score) ==
    IF score >= MATURITY_CONFIGS.evergreen.minQualityScore THEN "evergreen"
    ELSE IF score >= MATURITY_CONFIGS.tree.minQualityScore THEN "tree"
    ELSE IF score >= MATURITY_CONFIGS.sprout.minQualityScore THEN "sprout"
    ELSE "seed"

\* MaturityLevel.fromFrontmatter, for a value that is absent or a level name
fromFrontmatter(value) ==
    IF value = Absent THEN defaultLevel
    ELSE IF value \in Levels THEN value
    ELSE defaultLevel

equals(a, b)       == MATURITY_CONFIGS[a].level = MATURITY_CONFIGS[b].level
isHigherThan(a, b) == order(a) > order(b)
isLowerThan(a, b)  == order(a) < order(b)

\* A plausible slip: the same stage counted as an upgrade.
canUpgradeTo_orSame(self, target) == order(target) >= order(self)

\* MaturityLevel.canUpgradeTo
canUpgradeTo(self, target) == isHigherThan(target, self)

\* MaturityLevel.canDowngradeTo
canDowngradeTo(self, target) == FALSE


-----------------------------------------------------------------------------
(***************************************************************************)
(* IEEE-754 double arithmetic, exactly, for the weighted sum.              *)
(*                                                                         *)
(* Every double the sum meets is k/20 plus a tiny error, so a double is a  *)
(* pair [k, e] standing for (k * 2^55 + e) / (20 * 2^55): e counts units   *)
(* of 2^-55 / 20.  Rounding to 53 significant bits needs the value modulo  *)
(* the spacing of the doubles around it, which is small once 2^n is taken  *)
(* modulo 20.                                                              *)
(***************************************************************************)

\* 2^n, n in 0..10
Pow2(n) == <<1, 2, 4, 8, 16, 32, 64, 128, 256, 512, 1024>>[n + 1]

\* 2^n modulo 20: 1, 2, then 4, 8, 16, 12 over and over
Pow2Mod20(n) ==
    IF n = 0 THEN 1
    ELSE IF n = 1 THEN 2
    ELSE <<4, 8, 16, 12>>[((n - 2) % 4) + 1]

\* The exact value [k, e] is at least 2^(g-3).
AtLeastBinade(k, e, g) ==
    \/ 2 * k > 5 * Pow2(g)
    \/ 2 * k = 5 * Pow2(g) /\ e >= 0

RECURSIVE BinadeFrom(_, _, _)
BinadeFrom(k, e, g) ==
    IF g = 0 \/ AtLeastBinade(k, e, g) THEN g ELSE BinadeFrom(k, e, g - 1)

\* The doubles around the exact value [k, e], which is in [0.125, 128), are
\* 2^(g-55) apart.
Binade(k, e) == BinadeFrom(k, e, 9)

\* Round the exact value [k, e] to the nearest double, ties to even.
RoundToDouble(k, e) ==
    IF k = 0 THEN [k |-> 0, e |-> 0]
    ELSE LET g     == Binade(k, e)
             G     == 20 * Pow2(g)
             r     == (Pow2(g) * (((k % 20) * Pow2Mod20(55 - g)) % 20) + e) % G
             r2    == (Pow2(g + 1) * (((k % 20) * Pow2Mod20(54 - g)) % 20) + e) % (2 * G)
             down  == [k |-> k, e |-> e - r]
             up    == [k |-> k, e |-> e - r + G]
         IN  IF 2 * r < G THEN down
             ELSE IF 2 * r > G THEN up
             ELSE IF r2 = r THEN down ELSE up

\* x + y on doubles
DoubleAdd(x, y) == RoundToDouble(x.k + y.k, x.e + y.e)

\* w * n on doubles, n an integer in 0..100
DoubleTimesInt(w, n) == RoundToDouble(w.k * n, w.e * n)

\* Math.round(x): the nearest integer, a tie going up
MathRound(x) ==
    IF (x.k + 10) % 20 = 0 /\ x.e < 0
    THEN ((x.k + 10) \div 20) - 1
    ELSE (x.k + 10) \div 20

-----------------------------------------------------------------------------
(***************************************************************************)
(* QualityDimension                                                        *)
(***************************************************************************)

\* QualityDimension.getAllTypes(): the catalog, in its order
getAllTypes == <<"atomicity", "connectivity", "clarity", "evidence", "originality">>

DimTypes == Range(getAllTypes)

\* DIMENSION_CONFIGS[type].weight as the double the literal denotes:
\* 0.25 is exact, 0.20 is 0.2 + 8 units, 0.15 is 0.15 - 4 units.
weight(type) ==
    CASE type = "atomicity"    -> [k |-> 5, e |-> 0]
      [] type = "connectivity" -> [k |-> 5, e |-> 0]
      [] type = "clarity"      -> [k |-> 4, e |-> 8]
      [] type = "evidence"     -> [k |-> 3, e |-> -4]
      [] type = "originality"  -> [k |-> 3, e |-> -4]

\* The weights as the percentages the configuration spells: 25, 25, 20, 15, 15.
weightPercent(type) == 5 * weight(type).k

MinScore == 0
MaxScore == 100

\* QualityDimension.validateScore; the raw score is raw10 / 10
validateScore(raw10) ==
    IF raw10 < 10 * MinScore THEN MinScore
    ELSE IF raw10 > 10 * MaxScore THEN MaxScore
    ELSE (raw10 + 5) \div 10

\* QualityDimension.create(type, score): the object, as its type and stored score
QualityDimension_create(type, raw10) ==
    [type |-> type, score |-> validateScore(raw10)]

\* get weightedScore
weightedScore(dimension) == DoubleTimesInt(weight(dimension.type), dimension.score)


-----------------------------------------------------------------------------
(***************************************************************************)
(* QualityScore.  An object is its Map of dimensions, as the sequence of   *)
(* entries in insertion order, and its total.                              *)
(***************************************************************************)

\* Map.set(d.type, d): a key already present keeps its place and takes the new value
MapSet(map, d) ==
    IF \E i \in 1..Len(map) : map[i].type = d.type
    THEN [i \in 1..Len(map) |-> IF map[i].type = d.type THEN d ELSE map[i]]
    ELSE Append(map, d)

\* dimensions.forEach((d) => this._dimensions.set(d.type, d))
RECURSIVE MapOf(_)
MapOf(dimensions) ==
    IF dimensions = <<>> THEN <<>>
    ELSE MapSet(MapOf(SubSeq(dimensions, 1, Len(dimensions) - 1)),
                dimensions[Len(dimensions)])

\* totalWeightedScore after the forEach over the first n entries of the Map
RECURSIVE totalWeightedScore(_, _)
totalWeightedScore(map, n) ==
    IF n = 0 THEN [k |-> 0, e |-> 0]
    ELSE DoubleAdd(totalWeightedScore(map, n - 1), weightedScore(map[n]))

\* QualityScore.calculateTotalScore
calculateTotalScore(map) == MathRound(totalWeightedScore(map, Len(map)))

\* new QualityScore(dimensions)
QualityScore_new(dimensions) ==
    LET map == MapOf(dimensions)
    IN  [dimensions |-> map, totalScore |-> calculateTotalScore(map)]

\* QualityScore.create
QualityScore_create(dimensions) ==
    IF \E i \in 1..Len(getAllTypes) :
           getAllTypes[i] \notin {dimensions[j].type : j \in 1..Len(dimensions)}
    THEN Thrown
    ELSE QualityScore_new(dimensions)

\* QualityScore.fromScores; scores maps each type to its raw score
QualityScore_fromScores(scores) ==
    QualityScore_create(
        [i \in 1..Len(getAllTypes) |->
            QualityDimension_create(getAllTypes[i], scores[getAllTypes[i]])])

\* QualityScore.fromData; data is the list of {type, score} entries
QualityScore_fromData(data) ==
    QualityScore_new(
        [i \in 1..Len(data) |-> QualityDimension_create(data[i].type, data[i].score)])

\* getDimension(type)?.score, NoScore when the Map has no such key
dimensionScore(q, type) ==
    IF \E i \in 1..Len(q.dimensions) : q.dimensions[i].type = type
    THEN (CHOOSE d \in Range(q.dimensions) : d.type = type).score
    ELSE NoScore

IsQualityScore(q) == q \notin {None, Thrown}

-----------------------------------------------------------------------------
(***************************************************************************)
(* NoteAssessment                                                          *)
(***************************************************************************)

\* NoteAssessment.create
NoteAssessment_create(qualityScore, currentMaturity, improvements, splitSuggestion) ==
    [qualityScore       |-> qualityScore,
     currentMaturity    |-> currentMaturity,
     recommendedMaturity |-> fromQualityScore(qualityScore.totalScore),
     improvements       |-> improvements,
     splitSuggestion    |-> splitSuggestion]

\* NoteAssessment.fromData
NoteAssessment_fromData(data) ==
    [qualityScore       |-> QualityScore_fromData(data.qualityScore),
     currentMaturity    |-> data.currentMaturity,
     recommendedMaturity |-> data.recommendedMaturity,
     improvements       |-> data.improvements,
     splitSuggestion    |-> data.splitSuggestion]

\* NoteAssessment.isMaturityUpgradeRecommended
isMaturityUpgradeRecommended(a) == isHigherThan(a.recommendedMaturity, a.currentMaturity)


-----------------------------------------------------------------------------
(***************************************************************************)
(* UpdateMaturityUseCase.  An input is [currentMaturity, targetMaturity    *)
(* (a level or Absent), qualityScore (its totalScore, or NoScore when no   *)
(* score is given), forceUpdate]; repoOk says whether                      *)
(* noteRepository.updateMaturityLevel resolves.  The result is the output  *)
(* and the level handed to the repository (Absent when it is not called).  *)
(***************************************************************************)

Failure(currentMaturity, error) ==
    [kind |-> "returned", success |-> FALSE, previousLevel |-> currentMaturity,
     newLevel |-> currentMaturity, isUpgrade |-> FALSE, error |-> error]

Success(currentMaturity, newLevel, isUpgrade) ==
    [kind |-> "returned", success |-> TRUE, previousLevel |-> currentMaturity,
     newLevel |-> newLevel, isUpgrade |-> isUpgrade, error |-> "none"]

\* A plausible slip: the downgrade guard dropped.
UpdateMaturityUseCase_execute_noDowngradeGuard(input, repoOk) ==
    LET currentMaturity == input.currentMaturity
        hasTarget == input.targetMaturity # Absent
        hasScore  == input.qualityScore # NoScore
        newLevel  == IF hasTarget THEN input.targetMaturity
                     ELSE fromQualityScore(input.qualityScore)
    IN  IF ~hasTarget /\ ~hasScore
        THEN [output |-> Failure(currentMaturity, "target or score needed"), call |-> Absent]
        ELSE IF equals(newLevel, currentMaturity)
        THEN [output |-> Success(currentMaturity, currentMaturity, FALSE), call |-> Absent]
        ELSE IF /\ isHigherThan(newLevel, currentMaturity) /\ hasScore
                /\ input.qualityScore < minQualityScore(newLevel) /\ ~input.forceUpdate
        THEN [output |-> Failure(currentMaturity, "below threshold"), call |-> Absent]
        ELSE IF repoOk
        THEN [output |-> Success(currentMaturity, newLevel, isHigherThan(newLevel, currentMaturity)),
              call |-> newLevel]
        ELSE [output |-> Failure(currentMaturity, "update failed"), call |-> newLevel]

\* A plausible slip: the same-stage return left out.
UpdateMaturityUseCase_execute_noSameStageReturn(input, repoOk) ==
    LET currentMaturity == input.currentMaturity
        hasTarget == input.targetMaturity # Absent
        hasScore  == input.qualityScore # NoScore
        newLevel  == IF hasTarget THEN input.targetMaturity
                     ELSE fromQualityScore(input.qualityScore)
        isUpgrade == isHigherThan(newLevel, currentMaturity)
    IN  IF ~hasTarget /\ ~hasScore
        THEN [output |-> Failure(currentMaturity, "target or score needed"), call |-> Absent]
        ELSE IF isLowerThan(newLevel, currentMaturity) /\ ~input.forceUpdate
        THEN [output |-> Failure(currentMaturity, "cannot lower"), call |-> Absent]
        ELSE IF /\ isUpgrade /\ hasScore
                /\ input.qualityScore < minQualityScore(newLevel) /\ ~input.forceUpdate
        THEN [output |-> Failure(currentMaturity, "below threshold"), call |-> Absent]
        ELSE IF repoOk
        THEN [output |-> Success(currentMaturity, newLevel, isUpgrade), call |-> newLevel]
        ELSE [output |-> Failure(currentMaturity, "update failed"), call |-> newLevel]

\* A plausible slip: the catch branch reports the level it tried to write.
UpdateMaturityUseCase_execute_catchReportsTarget(input, repoOk) ==
    LET currentMaturity == input.currentMaturity
        hasTarget == input.targetMaturity # Absent
        hasScore  == input.qualityScore # NoScore
        newLevel  == IF hasTarget THEN input.targetMaturity
                     ELSE fromQualityScore(input.qualityScore)
        isUpgrade   == isHigherThan(newLevel, currentMaturity)
        isDowngrade == isLowerThan(newLevel, currentMaturity)
        isSame      == equals(newLevel, currentMaturity)
    IN  IF ~hasTarget /\ ~hasScore
        THEN [output |-> Failure(currentMaturity, "target or score needed"), call |-> Absent]
        ELSE IF isSame
        THEN [output |-> Success(currentMaturity, currentMaturity, FALSE), call |-> Absent]
        ELSE IF isDowngrade /\ ~input.forceUpdate
        THEN [output |-> Failure(currentMaturity, "cannot lower"), call |-> Absent]
        ELSE IF /\ isUpgrade /\ hasScore
                /\ input.qualityScore < minQualityScore(newLevel) /\ ~input.forceUpdate
        THEN [output |-> Failure(currentMaturity, "below threshold"), call |-> Absent]
        ELSE IF repoOk
        THEN [output |-> Success(currentMaturity, newLevel, isUpgrade), call |-> newLevel]
        ELSE [output |-> [Failure(currentMaturity, "update failed") EXCEPT
                              !.newLevel = newLevel, !.isUpgrade = isUpgrade],
              call |-> newLevel]

\* UpdateMaturityUseCase.execute
UpdateMaturityUseCase_execute(input, repoOk) ==
    LET currentMaturity == input.currentMaturity
        hasTarget == input.targetMaturity # Absent
        hasScore  == input.qualityScore # NoScore
        newLevel  == IF hasTarget THEN input.targetMaturity
                     ELSE fromQualityScore(input.qualityScore)
        isUpgrade   == isHigherThan(newLevel, currentMaturity)
        isDowngrade == isLowerThan(newLevel, currentMaturity)
        isSame      == equals(newLevel, currentMaturity)
    IN  IF ~hasTarget /\ ~hasScore
        THEN [output |-> Failure(currentMaturity, "target or score needed"), call |-> Absent]
        ELSE IF isSame
        THEN [output |-> Success(currentMaturity, currentMaturity, FALSE), call |-> Absent]
        ELSE IF isDowngrade /\ ~input.forceUpdate
        THEN [output |-> Failure(currentMaturity, "cannot lower"), call |-> Absent]
        ELSE IF /\ isUpgrade /\ hasScore
                /\ input.qualityScore < minQualityScore(newLevel) /\ ~input.forceUpdate
        THEN [output |-> Failure(currentMaturity, "below threshold"), call |-> Absent]
        ELSE IF repoOk
        THEN [output |-> Success(currentMaturity, newLevel, isUpgrade), call |-> newLevel]
        ELSE [output |-> Failure(currentMaturity, "update failed"), call |-> newLevel]

\* ObsidianNoteRepository.updateMaturityLevel: the frontmatter after execute
\* returned result; a call that rejected wrote nothing
StageAfter(stage, result) ==
    IF result.call # Absent /\ result.output.success THEN result.call ELSE stage

-----------------------------------------------------------------------------
(***************************************************************************)
(* The parts at rest: what each specification leaves the others at.        *)
(***************************************************************************)

LevelIdle   == probe = None
ScoreIdle   == rawScores = None /\ supplied = None /\ qs = None /\ assessment = None
MatIdle     == /\ growthStage = Absent /\ viewAssessment = None /\ request = None
               /\ output = None /\ repoCall = Absent
HistoryIdle == /\ maxPerNote = 0 /\ stored = None /\ initialized = FALSE
               /\ history = None /\ entered = None /\ nextId = 0 /\ lastDelta = None
CodecIdle   == codecInput = None /\ callout = None /\ decoded = None /\ content = None
PluginIdle  == settings = None /\ sidebar = None /\ inflight = None

-----------------------------------------------------------------------------
(***************************************************************************)
(* SpecLevel: fromQualityScore applied to two scores.                      *)
(***************************************************************************)

Scores == MinScore..MaxScore

InitLevel ==
    /\ probe \in [kind : {"asked"}, s : Scores, t : Scores]
    /\ ScoreIdle /\ MatIdle /\ HistoryIdle /\ CodecIdle /\ PluginIdle

ApplyFromQualityScore ==
    /\ probe.kind = "asked"
    /\ probe' = [kind |-> "answered", s |-> probe.s, t |-> probe.t,
                 ofS |-> fromQualityScore(probe.s), ofT |-> fromQualityScore(probe.t)]
    /\ UNCHANGED <<scoreVars, matVars, historyVars, codecVars, pluginVars>>

\* canUpgradeTo and canDowngradeTo asked of the two stages just obtained
ApplyCanChangeTo ==
    /\ probe.kind = "answered"
    /\ probe' = [kind |-> "compared", s |-> probe.s, t |-> probe.t,
                 self |-> probe.ofS, target |-> probe.ofT,
                 canUpgradeTo |-> canUpgradeTo(probe.ofS, probe.ofT),
                 canDowngradeTo |-> canDowngradeTo(probe.ofS, probe.ofT)]
    /\ UNCHANGED <<scoreVars, matVars, historyVars, codecVars, pluginVars>>

NextLevel ==
    \/ ApplyFromQualityScore
    \/ ApplyCanChangeTo

SpecLevel == InitLevel /\ [][NextLevel]_vars

\* The thresholds as the claim gives them.
StatedThreshold == [seed |-> 0, sprout |-> 40, tree |-> 70, evergreen |-> 90]
StatedOrder     == [seed |-> 1, sprout |-> 2, tree |-> 3, evergreen |-> 4]

\* C9: for every integer score s in 0..100, fromQualityScore(s) is the
\* highest-order stage whose threshold (seed 0, sprout 40, tree 70,
\* evergreen 90) is <= s; it is monotonically non-decreasing in s; and the
\* threshold of each stage maps to that stage.
C9_FromQualityScore ==
    probe.kind = "answered" =>
        /\ probe.ofS \in Levels
        /\ StatedThreshold[probe.ofS] <= probe.s
        /\ \A l \in Levels :
              StatedThreshold[l] <= probe.s => StatedOrder[l] <= StatedOrder[probe.ofS]
        /\ probe.s <= probe.t => StatedOrder[probe.ofS] <= StatedOrder[probe.ofT]
        /\ \A l \in Levels : probe.s = StatedThreshold[l] => probe.ofS = l
        /\ \A l \in Levels : minQualityScore(l) = StatedThreshold[l] /\ order(l) = StatedOrder[l]

\* A threshold score answered with its own stage, below a higher score of the next stage.
C9_Witness ==
    /\ probe.kind = "answered"
    /\ probe.s = 70 /\ probe.ofS = "tree"
    /\ probe.t = 90 /\ probe.ofT = "evergreen"

\* C11: for every ordered pair of stages (a, b), a.canDowngradeTo(b) is
\* false, and a.canUpgradeTo(b) is true exactly when b has strictly higher
\* order than a, so never for b = a.
C11_CanChangeTo ==
    probe.kind = "compared" =>
        /\ probe.canDowngradeTo = FALSE
        /\ probe.canUpgradeTo <=> (StatedOrder[probe.target] > StatedOrder[probe.self])
        /\ probe.self = probe.target => ~probe.canUpgradeTo

\* tree was asked whether it can move to tree: neither up nor down.
C11_Witness ==
    /\ probe.kind = "compared"
    /\ probe.self = "tree"
    /\ probe.target = "tree"
    /\ ~probe.canUpgradeTo
    /\ ~probe.canDowngradeTo


-----------------------------------------------------------------------------
(***************************************************************************)
(* SpecScore: the constructors of QualityScore and NoteAssessment applied  *)
(* to raw scores.  A raw score is a number of tenths: 805 is 80.5.         *)
(***************************************************************************)

\* Below range, in range, above range.
RawChoices == {-10, 500, 1005}

Vector(a, c, l, e, o) ==
    [t \in DimTypes |->
        CASE t = "atomicity"    -> a
          [] t = "connectivity" -> c
          [] t = "clarity"      -> l
          [] t = "evidence"     -> e
          [] t = "originality"  -> o]

RawVectors ==
    [DimTypes -> RawChoices] \cup
    { Vector(800, 600, 700, 500, 900),      \* the documented example, total 70
      Vector(0, 0, 0, 10, 90),              \* weighted sum 1.5
      Vector(940, 910, 790, 840, 990),      \* weighted sum 89.5
      Vector(450, 450, 450, 450, 450),      \* total 45
      Vector(364, 365, 1000, 0, 996) }      \* fractions: 36.4, 36.5, 99.6

\* The dimension lists handed to create / fromData for the raw scores r:
\* the catalog in order, reversed, without its first or last type, with a
\* type given twice, and nothing at all.
InOrder(r) == [i \in 1..Len(getAllTypes) |-> [type |-> getAllTypes[i], score |-> r[getAllTypes[i]]]]

SuppliedLists(r) ==
    LET n == Len(getAllTypes)
    IN  { InOrder(r),
          [i \in 1..n |-> InOrder(r)[n + 1 - i]],
          SubSeq(InOrder(r), 2, n),
          SubSeq(InOrder(r), 1, n - 1),
          Append(InOrder(r), [type |-> "atomicity", score |-> 300]),
          <<>> }

InitScore ==
    /\ rawScores \in RawVectors
    /\ supplied \in SuppliedLists(rawScores)
    /\ qs = None
    /\ assessment = None
    /\ LevelIdle /\ MatIdle /\ HistoryIdle /\ CodecIdle /\ PluginIdle

Built(via, result) == [kind |-> "built", via |-> via, result |-> result]

\* QualityScore.fromScores(rawScores)
FromScores ==
    /\ qs' = Built("fromScores", QualityScore_fromScores(rawScores))
    /\ UNCHANGED <<rawScores, supplied, assessment, levelVars, matVars, historyVars, codecVars, pluginVars>>

\* QualityScore.create(supplied.map(d => QualityDimension.create(d.type, d.score)))
Create ==
    /\ qs' = Built("create",
                   QualityScore_create(
                       [i \in 1..Len(supplied) |->
                           QualityDimension_create(supplied[i].type, supplied[i].score)]))
    /\ UNCHANGED <<rawScores, supplied, assessment, levelVars, matVars, historyVars, codecVars, pluginVars>>

\* QualityScore.fromData({dimensions: supplied})
FromData ==
    /\ qs' = Built("fromData", QualityScore_fromData(supplied))
    /\ UNCHANGED <<rawScores, supplied, assessment, levelVars, matVars, historyVars, codecVars, pluginVars>>

NextScore ==
    \/ FromScores
    \/ Create
    \/ FromData

SpecScore == InitScore /\ [][NextScore]_vars

-----------------------------------------------------------------------------
(***************************************************************************)
(* SpecAssessment: NoteAssessment built from raw scores, as                *)
(* AssessNoteQualityUseCase.execute builds it, or restored from data.      *)
(***************************************************************************)

InitAssessment ==
    /\ rawScores \in RawVectors
    /\ supplied \in {InOrder(rawScores), SubSeq(InOrder(rawScores), 1, Len(getAllTypes) - 1)}
    /\ qs = None
    /\ assessment = None
    /\ LevelIdle /\ MatIdle /\ HistoryIdle /\ CodecIdle /\ PluginIdle

BuiltAssessment(via, a) ==
    [kind |-> "built", via |-> via, a |-> a,
     upgradeRecommended |-> isMaturityUpgradeRecommended(a)]

\* NoteAssessment.create({qualityScore: QualityScore.fromScores(rawScores), currentMaturity})
AssessmentCreate ==
    /\ \E current \in Levels :
          assessment' = BuiltAssessment("create",
                            NoteAssessment_create(QualityScore_fromScores(rawScores),
                                                  current, <<>>, None))
    /\ UNCHANGED <<rawScores, supplied, qs, levelVars, matVars, historyVars, codecVars, pluginVars>>

\* NoteAssessment.fromData({qualityScore: {dimensions: supplied}, currentMaturity, recommendedMaturity})
AssessmentFromData ==
    /\ \E current \in Levels, recommended \in Levels :
          assessment' = BuiltAssessment("fromData",
                            NoteAssessment_fromData(
                                [qualityScore       |-> supplied,
                                 currentMaturity    |-> current,
                                 recommendedMaturity |-> recommended,
                                 improvements       |-> <<>>,
                                 splitSuggestion    |-> None]))
    /\ UNCHANGED <<rawScores, supplied, qs, levelVars, matVars, historyVars, codecVars, pluginVars>>

NextAssessment ==
    \/ AssessmentCreate
    \/ AssessmentFromData

SpecAssessment == InitAssessment /\ [][NextAssessment]_vars

-----------------------------------------------------------------------------
(***************************************************************************)
(* Claims on QualityScore and NoteAssessment                               *)
(***************************************************************************)

\* The raw score raw10 / 10 clamped to [0,100] and rounded to an integer is n.
IsClampedRounded(raw10, n) ==
    /\ n \in 0..100
    /\ raw10 < 0 => n = 0
    /\ raw10 > 1000 => n = 100
    /\ raw10 \in 0..1000 => (10 * n - 5 <= raw10 /\ raw10 < 10 * n + 5)

\* round(0.25*atomicity + 0.25*connectivity + 0.20*clarity + 0.15*evidence
\* + 0.15*originality) over the stored scores of q, in exact arithmetic.
StatedTotal(q) ==
    ( 25 * dimensionScore(q, "atomicity") + 25 * dimensionScore(q, "connectivity")
    + 20 * dimensionScore(q, "clarity") + 15 * dimensionScore(q, "evidence")
    + 15 * dimensionScore(q, "originality") + 50 ) \div 100

\* C7: for every five raw dimension scores, each stored score is the raw
\* score clamped to [0,100] and rounded, and totalScore is the rounded
\* weighted sum of the stored scores, an integer in [0,100]; 80/60/70/50/90
\* gives 70.
C7_TotalIsRoundedWeightedSum ==
    (qs.kind = "built" /\ qs.via = "fromScores") =>
        /\ qs.result # Thrown
        /\ \A t \in DimTypes : IsClampedRounded(rawScores[t], dimensionScore(qs.result, t))
        /\ qs.result.totalScore = StatedTotal(qs.result)
        /\ qs.result.totalScore \in 0..100
        /\ rawScores = Vector(800, 600, 700, 500, 900) => qs.result.totalScore = 70

\* The types handed to the constructor that built qs.
SuppliedTypes ==
    IF qs.via = "fromScores" THEN DimTypes
    ELSE {supplied[i].type : i \in 1..Len(supplied)}

\* C8: every QualityScore object, whichever of create, fromScores and
\* fromData built it, holds exactly one dimension score per catalog type,
\* and constructing one with a catalog type absent fails and yields no object.
C8_OnePerCatalogType ==
    qs.kind = "built" =>
        /\ ~(DimTypes \subseteq SuppliedTypes) => qs.result = Thrown
        /\ qs.result # Thrown =>
              /\ Len(qs.result.dimensions) = Cardinality(DimTypes)
              /\ {qs.result.dimensions[i].type : i \in 1..Len(qs.result.dimensions)} = DimTypes

\* C10: every Assessment has recommendedMaturity =
\* fromQualityScore(qualityScore.totalScore), and isMaturityUpgradeRecommended()
\* is true exactly when that stage is of higher order than currentMaturity;
\* current seed with total 45 gives sprout and an upgrade recommendation.
C10_RecommendedIsDerived ==
    assessment.kind = "built" =>
        LET a       == assessment.a
            derived == fromQualityScore(a.qualityScore.totalScore)
        IN  /\ a.recommendedMaturity = derived
            /\ assessment.upgradeRecommended <=>
                   StatedOrder[derived] > StatedOrder[a.currentMaturity]
            /\ (a.qualityScore.totalScore = 45 /\ a.currentMaturity = "seed") =>
                   (a.recommendedMaturity = "sprout" /\ assessment.upgradeRecommended)

-----------------------------------------------------------------------------
(***************************************************************************)
(* SpecUseCase: UpdateMaturityUseCase.execute called with any input, on a  *)
(* note whose frontmatter holds any stage or none.                         *)
(***************************************************************************)

\* Totals of the stages seed, sprout, tree (at its threshold) and evergreen.
TotalChoices == {30, 45, 70, 95}

StageChoices == Levels \cup {Absent}

Call(via, input, repoOk, stageBefore) ==
    [kind |-> "call", via |-> via, input |-> input, repoOk |-> repoOk,
     stageBefore |-> stageBefore]

\* One call of execute and what it leaves behind.
Executes(via, input, repoOk) ==
    LET result == UpdateMaturityUseCase_execute(input, repoOk)
    IN  /\ request' = Call(via, input, repoOk, growthStage)
        /\ output' = result.output
        /\ repoCall' = result.call
        /\ growthStage' = StageAfter(growthStage, result)

InitUseCase ==
    /\ growthStage \in StageChoices
    /\ viewAssessment = None
    /\ request = None
    /\ output = None
    /\ repoCall = Absent
    /\ LevelIdle /\ ScoreIdle /\ HistoryIdle /\ CodecIdle /\ PluginIdle

Execute ==
    /\ \E currentMaturity \in Levels, targetMaturity \in StageChoices,
          qualityScore \in TotalChoices \cup {NoScore},
          forceUpdate \in BOOLEAN, repoOk \in BOOLEAN :
          Executes("direct",
                   [currentMaturity |-> currentMaturity, targetMaturity |-> targetMaturity,
                    qualityScore |-> qualityScore, forceUpdate |-> forceUpdate],
                   repoOk)
    /\ UNCHANGED <<viewAssessment, levelVars, scoreVars, historyVars, codecVars, pluginVars>>

NextUseCase == Execute

SpecUseCase == InitUseCase /\ [][NextUseCase]_vars

\* The target execute resolves for the last request: the one given, else the
\* stage of the score given.
ResolvedTarget ==
    IF request.input.targetMaturity # Absent THEN request.input.targetMaturity
    ELSE fromQualityScore(request.input.qualityScore)

HasResolvedTarget ==
    /\ request.kind = "call"
    /\ request.input.targetMaturity # Absent \/ request.input.qualityScore # NoScore

\* C2: execute without the force flag and with a resolved target of lower
\* order than currentMaturity returns (does not throw) success = false with
\* an error message, newLevel = previousLevel = currentMaturity and
\* isUpgrade = false, and never calls updateMaturityLevel: the persisted
\* stage is unchanged.
C2_UnforcedDowngradeRejected ==
    (/\ HasResolvedTarget
     /\ ~request.input.forceUpdate
     /\ StatedOrder[ResolvedTarget] < StatedOrder[request.input.currentMaturity]) =>
        /\ output.kind = "returned"
        /\ output.success = FALSE
        /\ output.error # "none"
        /\ output.newLevel = request.input.currentMaturity
        /\ output.previousLevel = request.input.currentMaturity
        /\ output.isUpgrade = FALSE
        /\ repoCall = Absent
        /\ growthStage = request.stageBefore

\* An unforced request from evergreen down to sprout, given as a score, came back a failure.
C2_Witness ==
    /\ request.kind = "call"
    /\ ~request.input.forceUpdate
    /\ request.input.currentMaturity = "evergreen"
    /\ request.input.targetMaturity = Absent
    /\ request.input.qualityScore = 45
    /\ request.repoOk
    /\ output.success = FALSE
    /\ growthStage = "evergreen"

\* C12: whenever the resolved target equals currentMaturity, execute returns
\* success = true with newLevel = previousLevel = currentMaturity and
\* isUpgrade = false and does not call the repository, whatever the force
\* flag and the quality score are.
C12_SameStageIsNoOp ==
    (HasResolvedTarget /\ ResolvedTarget = request.input.currentMaturity) =>
        /\ output.kind = "returned"
        /\ output.success = TRUE
        /\ output.error = "none"
        /\ output.newLevel = request.input.currentMaturity
        /\ output.previousLevel = request.input.currentMaturity
        /\ output.isUpgrade = FALSE
        /\ repoCall = Absent
        /\ growthStage = request.stageBefore

\* A forced request from tree to tree, with a score under tree's threshold and a
\* repository that would have failed, came back a success.
C12_Witness ==
    /\ request.kind = "call"
    /\ request.input.currentMaturity = "tree"
    /\ request.input.targetMaturity = "tree"
    /\ request.input.qualityScore = 30
    /\ request.input.forceUpdate
    /\ ~request.repoOk
    /\ output.success
    /\ repoCall = Absent

-----------------------------------------------------------------------------
(***************************************************************************)
(* SpecMaturity: one note, open in the assessment modal and in the sidebar *)
(* view.  Each view assesses the note and offers the recommended stage;    *)
(* each update reads the current stage from the frontmatter at click time. *)
(***************************************************************************)

\* cache?.frontmatter?.[key] ? MaturityLevel.fromFrontmatter(v) : MaturityLevel.default()
CurrentMaturityOf(stage) ==
    IF stage = Absent THEN defaultLevel ELSE fromFrontmatter(stage)

\* The assessment the use case returns for a note whose five dimensions all score total.
AssessmentOf(total, stage) ==
    NoteAssessment_create(
        QualityScore_fromScores(Vector(10 * total, 10 * total, 10 * total,
                                       10 * total, 10 * total)),
        CurrentMaturityOf(stage), <<>>, None)

\* What the modal keeps of result.assessment.
ModalHolds(a) ==
    [kind |-> "shown", currentMaturity |-> a.currentMaturity,
     recommendedMaturity |-> a.recommendedMaturity,
     button |-> isHigherThan(a.recommendedMaturity, a.currentMaturity)]

\* What the sidebar renders of lastAssessment against the frontmatter.
SidebarHolds(recommendedMaturity, stage) ==
    [kind |-> "shown", recommendedMaturity |-> recommendedMaturity,
     button |-> CurrentMaturityOf(stage) # recommendedMaturity]

InitMaturity ==
    /\ growthStage \in StageChoices
    /\ viewAssessment = [modal |-> None, sidebar |-> None]
    /\ request = None
    /\ output = None
    /\ repoCall = Absent
    /\ LevelIdle /\ ScoreIdle /\ HistoryIdle /\ CodecIdle /\ PluginIdle

\* AssessmentModal.runAnalysis
ModalRunAnalysis ==
    /\ \E total \in TotalChoices :
          viewAssessment' = [viewAssessment EXCEPT
                                !.modal = ModalHolds(AssessmentOf(total, growthStage))]
    /\ UNCHANGED <<growthStage, request, output, repoCall,
                   levelVars, scoreVars, historyVars, codecVars, pluginVars>>

\* CultivatorView.runAssessment
SidebarRunAssessment ==
    /\ \E total \in TotalChoices :
          viewAssessment' = [viewAssessment EXCEPT
              !.sidebar = SidebarHolds(AssessmentOf(total, growthStage).recommendedMaturity,
                                       growthStage)]
    /\ UNCHANGED <<growthStage, request, output, repoCall,
                   levelVars, scoreVars, historyVars, codecVars, pluginVars>>

\* AssessmentModal.updateMaturity, from the 'Upgrade Maturity' button
ModalUpgradeMaturity ==
    /\ viewAssessment.modal # None
    /\ viewAssessment.modal.button
    /\ \E repoOk \in BOOLEAN :
          /\ Executes("modal",
                      [currentMaturity |-> CurrentMaturityOf(growthStage),
                       targetMaturity |-> viewAssessment.modal.recommendedMaturity,
                       qualityScore |-> NoScore, forceUpdate |-> FALSE],
                      repoOk)
          /\ viewAssessment' =
                IF output'.success
                THEN [viewAssessment EXCEPT !.modal = None]
                ELSE viewAssessment
    /\ UNCHANGED <<levelVars, scoreVars, historyVars, codecVars, pluginVars>>

\* CultivatorView.updateMaturityToRecommended, from the 'Update' button
SidebarUpdate ==
    /\ viewAssessment.sidebar # None
    /\ viewAssessment.sidebar.button
    /\ \E repoOk \in BOOLEAN :
          /\ Executes("sidebar",
                      [currentMaturity |-> CurrentMaturityOf(growthStage),
                       targetMaturity |-> viewAssessment.sidebar.recommendedMaturity,
                       qualityScore |-> NoScore, forceUpdate |-> TRUE],
                      repoOk)
          /\ viewAssessment' =
                IF output'.success
                THEN [viewAssessment EXCEPT
                        !.sidebar = SidebarHolds(viewAssessment.sidebar.recommendedMaturity,
                                                 growthStage')]
                ELSE viewAssessment
    /\ UNCHANGED <<levelVars, scoreVars, historyVars, codecVars, pluginVars>>

NextMaturity ==
    \/ ModalRunAnalysis
    \/ SidebarRunAssessment
    \/ ModalUpgradeMaturity
    \/ SidebarUpdate

SpecMaturity == InitMaturity /\ [][NextMaturity]_vars

\* The order of the persisted stage; a note with no stage yet has none to fall from.
PersistedOrder(stage) == IF stage = Absent THEN 0 ELSE StatedOrder[stage]

\* C1: over every sequence of the modal's 'Upgrade Maturity' and the
\* sidebar's 'Update' actions, the stage persisted in the note never moves
\* from a stage to one of lower order.
C1_MaturityOnlyAdvances ==
    [][PersistedOrder(growthStage') >= PersistedOrder(growthStage)]_vars

\* C3: whenever an unforced request with a target of higher order than
\* currentMaturity results in the repository being written, a quality score
\* with totalScore >= the target's minQualityScore was supplied.
C3_UnforcedUpgradeNeedsScore ==
    (/\ request # None
     /\ ~request.input.forceUpdate
     /\ request.input.targetMaturity # Absent \/ request.input.qualityScore # NoScore
     /\ StatedOrder[ResolvedTarget] > StatedOrder[request.input.currentMaturity]
     /\ repoCall # Absent /\ output.success) =>
        /\ request.input.qualityScore # NoScore
        /\ request.input.qualityScore >= StatedThreshold[ResolvedTarget]

-----------------------------------------------------------------------------
(***************************************************************************)
(* AssessmentHistoryService.  The Map is a function from note path to the  *)
(* note's records, the empty sequence standing for a missing key.          *)
(***************************************************************************)

Last(records) == records[Len(records)]

\* A plausible slip: the oldest record taken for the latest.
getLatestRecord_oldest(map, notePath) ==
    IF map[notePath] = <<>> THEN None ELSE map[notePath][1]

\* AssessmentHistoryService.getLatestRecord
getLatestRecord(map, notePath) ==
    LET records == map[notePath]
    IN  IF Len(records) = 0 THEN None ELSE records[Len(records)]

\* AssessmentHistoryService.getHistory
getHistory(map, notePath) == map[notePath]

\* AssessmentHistoryService.calculateDelta
calculateDelta(map, notePath, current) ==
    LET previous == getLatestRecord(map, notePath)
    IN  IF previous = None THEN None
        ELSE [kind |-> "delta",
              totalDelta |-> current.totalScore - previous.totalScore,
              dimensionDeltas |->
                  [dim \in DOMAIN current.dimensionScores
                             \cap DOMAIN previous.dimensionScores |->
                      current.dimensionScores[dim] - previous.dimensionScores[dim]],
              previousAssessedAt |-> previous.assessedAt]

\* A plausible slip: the newest records dropped instead of the oldest.
pushAndCap_dropNewest(records, record, cap) ==
    LET pushed == Append(records, record)
    IN  IF Len(pushed) > cap THEN SubSeq(pushed, 1, cap) ELSE pushed

\* records.push(record); records.splice(0, records.length - maxPerNote) in addRecord
pushAndCap(records, record, cap) ==
    LET pushed == Append(records, record)
    IN  IF Len(pushed) > cap
        THEN SubSeq(pushed, Min(Len(pushed), Len(pushed) - cap) + 1, Len(pushed))
        ELSE pushed

\* AssessmentModal.buildAssessmentRecord
buildAssessmentRecord(a, id, notePath, assessedAt) ==
    [id |-> id, notePath |-> notePath,
     totalScore |-> a.qualityScore.totalScore,
     dimensionScores |->
         [dim \in {a.qualityScore.dimensions[i].type :
                       i \in 1..Len(a.qualityScore.dimensions)} |->
             dimensionScore(a.qualityScore, dim)],
     maturityLevel |-> a.currentMaturity,
     assessedAt |-> assessedAt]

\* The notes of the vault that get assessed.
Docs == {"a.md", "b.md"}

NoRecords == [notePath \in Docs |-> <<>>]

\* for (const [notePath, records] of Object.entries(data)) history.set(notePath, records)
LoadedMap(data) == IF data = None THEN NoRecords ELSE data

\* A plausible slip: the early return of initialize left out.
initialize_noEarlyReturn(service, data, loadOk) ==
    IF ~loadOk THEN [service EXCEPT !.threw = TRUE, !.loaded = TRUE]
    ELSE [initialized |-> TRUE, history |-> LoadedMap(data), threw |-> FALSE, loaded |-> TRUE]

\* AssessmentHistoryService.initialize on the service [initialized, history];
\* loadOk says whether loadData resolves; loaded says whether it was invoked
initialize(service, data, loadOk) ==
    IF service.initialized THEN [service EXCEPT !.threw = FALSE, !.loaded = FALSE]
    ELSE IF ~loadOk THEN [service EXCEPT !.threw = TRUE, !.loaded = TRUE]
    ELSE [initialized |-> TRUE, history |-> LoadedMap(data), threw |-> FALSE, loaded |-> TRUE]

\* AssessmentHistoryService.addRecord up to this.history.set; persist follows
addRecord(service, record, cap, data, loadOk) ==
    LET ready == initialize(service, data, loadOk)
    IN  IF ready.threw THEN ready
        ELSE [ready EXCEPT !.history[record.notePath] = pushAndCap(@, record, cap)]

\* A plausible slip: the map never handed to saveData.
persist_notWritten(map, data, saveOk) == data

\* AssessmentHistoryService.persist; saveOk says whether saveData resolves
persist(map, data, saveOk) == IF saveOk THEN map ELSE data

\* A plausible slip: the rejection of saveData caught inside persist.
persistOutcome_caught(saveOk) == "resolved"

\* await this.saveData(data) in persist, awaited in turn by addRecord: neither catches
persistOutcome(saveOk) == IF saveOk THEN "resolved" ELSE "save error"

-----------------------------------------------------------------------------
(***************************************************************************)
(* SpecHistory: one AssessmentHistoryService over the plugin's storage.    *)
(***************************************************************************)

\* The largest cap the service is constructed with.
MaxCap == 2

\* The number of records built in one behaviour.
MaxAdds == 4

\* A record an earlier session left in storage; some carry fewer dimension keys.
StoredRecord(id, totalScore, dimensionScores) ==
    [id |-> id, notePath |-> "a.md", totalScore |-> totalScore,
     dimensionScores |-> dimensionScores, maturityLevel |-> "seed", assessedAt |-> id]

StoredChoices ==
    { None,
      [NoRecords EXCEPT !["a.md"] =
          << StoredRecord(-1, 55, [atomicity |-> 50, clarity |-> 60]) >>],
      [NoRecords EXCEPT !["a.md"] =
          << StoredRecord(-2, 60, Vector(60, 60, 60, 60, 60)),
             StoredRecord(-1, 55, [atomicity |-> 50, clarity |-> 60]) >>] }

\* The assessments the evaluation flow produces here: totals 70 and 45.
HistoryAssessments ==
    { NoteAssessment_create(QualityScore_fromScores(v), "seed", <<>>, None) :
        v \in { Vector(800, 600, 700, 500, 900), Vector(450, 450, 450, 450, 450) } }

InitHistory ==
    /\ maxPerNote \in 1..MaxCap
    /\ stored \in StoredChoices
    /\ initialized = FALSE
    /\ history = NoRecords
    /\ entered = [initial |-> stored, calls |-> [d \in Docs |-> 0], pushed |-> NoRecords]
    /\ nextId = 0
    /\ lastDelta = None
    /\ LevelIdle /\ ScoreIdle /\ MatIdle /\ CodecIdle /\ PluginIdle

Service == [initialized |-> initialized, history |-> history, threw |-> FALSE,
            loaded |-> FALSE]

\* The record most recently added for the note, by the log.
LatestAdded(notePath) ==
    IF entered.pushed[notePath] # <<>> THEN Last(entered.pushed[notePath])
    ELSE IF initialized /\ LoadedMap(entered.initial)[notePath] # <<>>
    THEN Last(LoadedMap(entered.initial)[notePath])
    ELSE None

DeltaCall(via, notePath, current) ==
    [kind |-> "call", via |-> via, notePath |-> notePath, current |-> current,
     latestAdded |-> LatestAdded(notePath), wasInitialized |-> initialized,
     result |-> calculateDelta(history, notePath, current)]

\* One AssessmentHistoryService.addRecord call and what it leaves behind.
Adds(record, loadOk, saveOk) ==
    LET after == addRecord(Service, record, maxPerNote, stored, loadOk)
    IN  /\ initialized' = after.initialized
        /\ history' = after.history
        /\ stored' = IF after.threw THEN stored ELSE persist(after.history, stored, saveOk)
        /\ entered' = [entered EXCEPT
                          !.calls[record.notePath] = @ + 1,
                          !.pushed[record.notePath] =
                              IF after.threw THEN @ ELSE Append(@, record)]
        /\ nextId' = nextId + 1

\* plugin.onload: await this.historyService.initialize()
Initialize ==
    /\ ~initialized
    /\ \E loadOk \in BOOLEAN :
          LET after == initialize(Service, stored, loadOk)
          IN  /\ initialized' = after.initialized
              /\ history' = after.history
    /\ UNCHANGED <<maxPerNote, stored, entered, nextId, lastDelta,
                   levelVars, scoreVars, matVars, codecVars, pluginVars>>

\* AssessmentHistoryService.calculateDelta, called on its own
CalculateDelta ==
    /\ \E notePath \in Docs, a \in HistoryAssessments :
          lastDelta' = DeltaCall("direct", notePath,
                                 buildAssessmentRecord(a, nextId + 1, notePath, nextId + 1))
    /\ UNCHANGED <<maxPerNote, stored, initialized, history, entered, nextId,
                   levelVars, scoreVars, matVars, codecVars, pluginVars>>

\* AssessmentModal.runAnalysis with history enabled: calculateDelta, then addRecord
RunAnalysis ==
    /\ nextId < MaxAdds
    /\ \E notePath \in Docs, a \in HistoryAssessments, loadOk \in BOOLEAN, saveOk \in BOOLEAN :
          LET record == buildAssessmentRecord(a, nextId + 1, notePath, nextId + 1)
          IN  /\ lastDelta' = DeltaCall("runAnalysis", notePath, record)
              /\ Adds(record, loadOk, saveOk)
    /\ UNCHANGED <<maxPerNote, levelVars, scoreVars, matVars, codecVars, pluginVars>>

NextHistory ==
    \/ Initialize
    \/ CalculateDelta
    \/ RunAnalysis

SpecHistory == InitHistory /\ [][NextHistory]_vars

\* The last n elements of a sequence, all of it when it is shorter.
LastN(records, n) ==
    IF Len(records) <= n THEN records
    ELSE [i \in 1..n |-> records[Len(records) - n + i]]

\* C4: for every maxPerNote >= 1 and k >= 0, after maxPerNote + k addRecord
\* calls for one document whose history was empty at first, getHistory
\* holds exactly the maxPerNote most recently added records, in insertion
\* order; with fewer calls it holds all of them.  (A call whose lazy
\* initialize rejected pushed nothing and is not one of these calls.)
C4_HistoryKeepsMostRecent ==
    \A notePath \in Docs :
        (/\ maxPerNote >= 1
         /\ LoadedMap(entered.initial)[notePath] = <<>>
         /\ entered.calls[notePath] = Len(entered.pushed[notePath])) =>
            /\ getHistory(history, notePath) = LastN(entered.pushed[notePath], maxPerNote)
            /\ entered.calls[notePath] >= maxPerNote =>
                   Len(getHistory(history, notePath)) = maxPerNote

\* Four records were added to a.md under a cap of two: the first two are gone.
C4_Witness ==
    /\ maxPerNote = 2
    /\ LoadedMap(entered.initial)["a.md"] = <<>>
    /\ entered.calls["a.md"] = 4
    /\ Len(entered.pushed["a.md"]) = 4
    /\ Len(history["a.md"]) = 2
    /\ history["a.md"][1].id = 3
    /\ history["a.md"][2].id = 4

\* C5: on an initialized service, after any addRecord calls, calculateDelta(doc,
\* current) returns none exactly when no record was added for doc, and
\* otherwise the difference of current against the record most recently added
\* for doc before the call: the total delta, a delta for each dimension key
\* present in both records, and the earlier record's assessedAt; in
\* runAnalysis the delta is taken before the record is added, so it is never
\* the record's difference against itself.
C5_DeltaAgainstLatest ==
    (lastDelta # None /\ lastDelta.wasInitialized) =>
        LET current == lastDelta.current
            latest  == lastDelta.latestAdded
            result  == lastDelta.result
        IN  /\ (result = None) <=> (latest = None)
            /\ latest # None =>
                 /\ result.totalDelta = current.totalScore - latest.totalScore
                 /\ DOMAIN result.dimensionDeltas =
                        DOMAIN current.dimensionScores \cap DOMAIN latest.dimensionScores
                 /\ \A dim \in DOMAIN result.dimensionDeltas :
                        result.dimensionDeltas[dim] =
                            current.dimensionScores[dim] - latest.dimensionScores[dim]
                 /\ result.previousAssessedAt = latest.assessedAt
                 /\ lastDelta.via = "runAnalysis" =>
                        result.previousAssessedAt # current.assessedAt

\* runAnalysis compared the third record of a.md (total 45) with the second (total 70),
\* after the first had been evicted under a cap of one.
C5_Witness ==
    /\ lastDelta # None
    /\ lastDelta.via = "runAnalysis"
    /\ lastDelta.notePath = "a.md"
    /\ maxPerNote = 1
    /\ Len(entered.pushed["a.md"]) = 3
    /\ lastDelta.current.id = 3
    /\ lastDelta.current.totalScore = 45
    /\ lastDelta.result # None
    /\ lastDelta.result.totalDelta = -25
    /\ lastDelta.result.previousAssessedAt = 2

-----------------------------------------------------------------------------
(***************************************************************************)
(* Text.  A string is the sequence of its characters, each a one-character *)
(* string; a character outside ASCII is written by its code point.         *)
(***************************************************************************)

Digits == <<"0", "1", "2", "3", "4", "5", "6", "7", "8", "9">>

IsDigit(c) == \E i \in 1..Len(Digits) : Digits[i] = c

DigitValue(c) == (CHOOSE i \in 1..Len(Digits) : Digits[i] = c) - 1

IsWhitespace(c) == c \in {" ", "\n", "\t"}

\* String.prototype.includes
includes(s, sub) ==
    \E i \in 1..(Len(s) - Len(sub) + 1) : SubSeq(s, i, i + Len(sub) - 1) = sub

\* String.prototype.startsWith
startsWith(s, prefix) ==
    Len(s) >= Len(prefix) /\ SubSeq(s, 1, Len(prefix)) = prefix

\* String.prototype.split on a one-character separator
RECURSIVE split(_, _)
split(s, sep) ==
    IF \E i \in 1..Len(s) : s[i] = sep
    THEN LET i == CHOOSE j \in 1..Len(s) : s[j] = sep /\ \A k \in 1..(j - 1) : s[k] # sep
         IN  <<SubSeq(s, 1, i - 1)>> \o split(SubSeq(s, i + 1, Len(s)), sep)
    ELSE <<s>>

\* Array.prototype.join
RECURSIVE join(_, _)
join(lines, sep) ==
    IF Len(lines) = 0 THEN <<>>
    ELSE IF Len(lines) = 1 THEN lines[1]
    ELSE lines[1] \o sep \o join(Tail(lines), sep)

\* String.prototype.trim
trim(s) ==
    IF \A i \in 1..Len(s) : IsWhitespace(s[i]) THEN <<>>
    ELSE LET first == CHOOSE i \in 1..Len(s) :
                          ~IsWhitespace(s[i]) /\ \A k \in 1..(i - 1) : IsWhitespace(s[k])
             last  == CHOOSE i \in 1..Len(s) :
                          ~IsWhitespace(s[i]) /\ \A k \in (i + 1)..Len(s) : IsWhitespace(s[k])
         IN  SubSeq(s, first, last)

\* String.prototype.replace(/c/g, by) for a one-character pattern, by halves
RECURSIVE replaceChar(_, _, _)
replaceChar(s, c, by) ==
    IF Len(s) = 0 THEN <<>>
    ELSE IF Len(s) = 1 THEN (IF s[1] = c THEN by ELSE s)
    ELSE replaceChar(SubSeq(s, 1, Len(s) \div 2), c, by)
            \o replaceChar(SubSeq(s, (Len(s) \div 2) + 1, Len(s)), c, by)

\* String.prototype.replace(/\\\|/g, '|'): every backslash before a pipe goes
unescapePipes(s) ==
    LET Stays(i) == ~(s[i] = "\\" /\ i < Len(s) /\ s[i + 1] = "|")
        kept == SelectSeq([i \in 1..Len(s) |-> i], Stays)
    IN  [j \in 1..Len(kept) |-> s[kept[j]]]

\* String.prototype.substring(0, n)
substring0(s, n) == SubSeq(s, 1, Min(n, Len(s)))

\* `${n}` for an integer n >= 0
RECURSIVE numberToString(_)
numberToString(n) ==
    IF n < 10 THEN <<Digits[n + 1]>>
    ELSE numberToString(n \div 10) \o <<Digits[(n % 10) + 1]>>

\* parseInt of a run of digits
RECURSIVE parseInt(_)
parseInt(digits) ==
    IF Len(digits) = 0 THEN 0
    ELSE 10 * parseInt(SubSeq(digits, 1, Len(digits) - 1)) + DigitValue(digits[Len(digits)])

\* The end of the run of digits that starts at i.
RECURSIVE RunEnd(_, _)
RunEnd(s, i) == IF i < Len(s) /\ IsDigit(s[i + 1]) THEN RunEnd(s, i + 1) ELSE i

\* s.match(/(\d+)/): the first run of digits, <<>> when there is no match
matchDigits(s) ==
    IF \E i \in 1..Len(s) : IsDigit(s[i])
    THEN LET i == CHOOSE j \in 1..Len(s) : IsDigit(s[j]) /\ \A k \in 1..(j - 1) : ~IsDigit(s[k])
         IN  SubSeq(s, i, RunEnd(s, i))
    ELSE <<>>

\* s.match(/(\d+)pts/): the first run of digits followed by pts, <<>> when there is none
matchDigitsPts(s) ==
    LET Hit(i) == /\ IsDigit(s[i])
                  /\ startsWith(SubSeq(s, RunEnd(s, i) + 1, Len(s)), <<"p", "t", "s">>)
    IN  IF \E i \in 1..Len(s) : Hit(i)
        THEN LET i == CHOOSE j \in 1..Len(s) : Hit(j) /\ \A k \in 1..(j - 1) : ~Hit(k)
             IN  SubSeq(s, i, RunEnd(s, i))
        ELSE <<>>

\* l.replace(/^>\s?/, '')
stripQuoteMarker(l) ==
    IF Len(l) > 0 /\ l[1] = ">"
    THEN IF Len(l) > 1 /\ IsWhitespace(l[2]) THEN SubSeq(l, 3, Len(l)) ELSE Tail(l)
    ELSE l

-----------------------------------------------------------------------------
(***************************************************************************)
(* The assessment callout of the sidebar view: generateAssessmentCallout   *)
(* writes it, parseAssessmentCallout reads it back.  An improvement is     *)
(* [dimension, priority, suggestion], its texts sequences of characters.   *)
(***************************************************************************)

\* DIMENSION_CONFIGS[type].displayName
displayName(type) ==
    CASE type = "atomicity"    -> <<"A", "t", "o", "m", "i", "c", "i", "t", "y">>
      [] type = "connectivity" -> <<"C", "o", "n", "n", "e", "c", "t", "i", "v", "i", "t", "y">>
      [] type = "clarity"      -> <<"C", "l", "a", "r", "i", "t", "y">>
      [] type = "evidence"     -> <<"E", "v", "i", "d", "e", "n", "c", "e">>
      [] type = "originality"  -> <<"O", "r", "i", "g", "i", "n", "a", "l", "i", "t", "y">>

\* MATURITY_CONFIGS[level].icon
levelIcon(level) ==
    CASE level = "seed"      -> <<"U+1F331">>
      [] level = "sprout"    -> <<"U+1F33F">>
      [] level = "tree"      -> <<"U+1F333">>
      [] level = "evergreen" -> <<"U+1F332">>

\* MATURITY_CONFIGS[level].displayName
levelDisplayName(level) ==
    CASE level = "seed"      -> <<"S", "e", "e", "d">>
      [] level = "sprout"    -> <<"S", "p", "r", "o", "u", "t">>
      [] level = "tree"      -> <<"T", "r", "e", "e">>
      [] level = "evergreen" -> <<"E", "v", "e", "r", "g", "r", "e", "e", "n">>

\* A plausible slip: the lower bounds of the bands taken as exclusive.
getGrade_exclusive(totalScore) ==
    IF totalScore > 90 THEN "A"
    ELSE IF totalScore > 80 THEN "B"
    ELSE IF totalScore > 70 THEN "C"
    ELSE IF totalScore > 60 THEN "D"
    ELSE "F"

\* QualityScore.getGrade
getGrade(totalScore) ==
    IF totalScore >= 90 THEN "A"
    ELSE IF totalScore >= 80 THEN "B"
    ELSE IF totalScore >= 70 THEN "C"
    ELSE IF totalScore >= 60 THEN "D"
    ELSE "F"

\* CultivatorView.getScoreForDimension
getScoreForDimension(a, dimensionName) ==
    LET dimensions == a.qualityScore.dimensions
    IN  IF \E i \in 1..Len(dimensions) : displayName(dimensions[i].type) = dimensionName
        THEN dimensions[CHOOSE i \in 1..Len(dimensions) :
                 /\ displayName(dimensions[i].type) = dimensionName
                 /\ \A k \in 1..(i - 1) : displayName(dimensions[k].type) # dimensionName].score
        ELSE 0

\* the feedback cell of a row: pipes escaped, newlines to spaces, cut at 100 characters
truncatedFeedback(suggestion) ==
    LET feedback == replaceChar(replaceChar(suggestion, "|", <<"\\", "|">>), "\n", <<" ">>)
    IN  IF Len(feedback) > 100 THEN substring0(feedback, 100) \o <<".", ".", ".">> ELSE feedback

\* CultivatorView.generateAssessmentCallout; date is today's yyyy-mm-dd
generateAssessmentCallout(a, date) ==
    LET qualityScore == a.qualityScore
        head == << <<">", " ", "[", "!", "a", "s", "s", "e", "s", "s", "m", "e", "n", "t", "]", "-", " ", "U+1F4CA", " ", "Q", "u", "a", "l", "i", "t", "y", " ", "A", "s", "s", "e", "s", "s", "m", "e", "n", "t", " ", "R", "e", "s", "u", "l", "t", "s", " ", "(">> \o date \o <<")">>,
                   <<">", " ", "*", "*", "T", "o", "t", "a", "l", " ", "S", "c", "o", "r", "e", "*", "*", ":", " ">> \o numberToString(qualityScore.totalScore)
                       \o <<"p", "t", "s", " ", "(">> \o <<getGrade(qualityScore.totalScore)>> \o <<")">> >>
        recommended ==
            IF a.recommendedMaturity # Absent
            THEN << <<">", " ", "*", "*", "R", "e", "c", "o", "m", "m", "e", "n", "d", "e", "d", " ", "M", "a", "t", "u", "r", "i", "t", "y", "*", "*", ":", " ">> \o levelIcon(a.recommendedMaturity)
                        \o <<" ">> \o levelDisplayName(a.recommendedMaturity) >>
            ELSE <<>>
        table == << <<">">>,
                    <<">", " ", "|", " ", "D", "i", "m", "e", "n", "s", "i", "o", "n", " ", "|", " ", "S", "c", "o", "r", "e", " ", "|", " ", "F", "e", "e", "d", "b", "a", "c", "k", " ", "|">>,
                    <<">", " ", "|", "-", "-", "-", "-", "-", "-", "-", "-", "-", "-", "-", "|", "-", "-", "-", "-", "-", "-", "-", "|", "-", "-", "-", "-", "-", "-", "-", "-", "-", "-", "|">> >>
        rows == [i \in 1..Len(a.improvements) |->
                    <<">", " ", "|", " ">> \o a.improvements[i].dimension \o <<" ", "|", " ">>
                    \o numberToString(getScoreForDimension(a, a.improvements[i].dimension))
                    \o <<"p", "t", "s", " ", "|", " ">> \o truncatedFeedback(a.improvements[i].suggestion) \o <<" ", "|">>]
    IN  join(head \o recommended \o table \o rows, <<"\n">>)

\* the first line that includes the text, <<>> when no line does (lines.find)
findLine(lines, text) ==
    IF \E i \in 1..Len(lines) : includes(lines[i], text)
    THEN lines[CHOOSE i \in 1..Len(lines) :
             includes(lines[i], text) /\ \A k \in 1..(i - 1) : ~includes(lines[k], text)]
    ELSE <<>>

IsTableLine(l) ==
    /\ startsWith(l, <<"|">>)
    /\ ~includes(l, <<"-", "-", "-">>)
    /\ ~includes(l, <<"D", "i", "m", "e", "n", "s", "i", "o", "n">>)

IsNonEmpty(c) == Len(c) > 0

\* line.split('|').map(c => c.trim()).filter(c => c)
cellsOf(line) ==
    LET parts == split(line, "|")
    IN  SelectSeq([i \in 1..Len(parts) |-> trim(parts[i])], IsNonEmpty)

HasThreeCells(line) == Len(cellsOf(line)) >= 3

\* what the forEach over tableLines takes from a line of at least three cells
rowOf(line) ==
    LET cells == cellsOf(line)
        scoreMatch == matchDigits(cells[2])
        score == IF Len(scoreMatch) > 0 THEN parseInt(scoreMatch) ELSE 0
    IN  [dimension |-> cells[1], score |-> score, feedback |-> unescapePipes(cells[3]),
         priority |-> IF score >= 80 THEN "low" ELSE IF score >= 60 THEN "medium" ELSE "high"]

\* the default a dimension without a row would get if it were not zero
scoreOrZero_orFifty(rows, name) ==
    IF \E i \in 1..Len(rows) : rows[i].dimension = name
    THEN rows[CHOOSE i \in 1..Len(rows) :
             rows[i].dimension = name /\ \A k \in (i + 1)..Len(rows) : rows[k].dimension # name].score
    ELSE 50

\* dimensionScores[name] || { score: 0, feedback: '' }, the last row of a name winning
scoreOrZero(rows, name) ==
    IF \E i \in 1..Len(rows) : rows[i].dimension = name
    THEN rows[CHOOSE i \in 1..Len(rows) :
             rows[i].dimension = name /\ \A k \in (i + 1)..Len(rows) : rows[k].dimension # name].score
    ELSE 0

\* the feedback of dimensionScores[name] || { score: 0, feedback: '' }
feedbackOrEmpty(rows, name) ==
    IF \E i \in 1..Len(rows) : rows[i].dimension = name
    THEN rows[CHOOSE i \in 1..Len(rows) :
             rows[i].dimension = name /\ \A k \in (i + 1)..Len(rows) : rows[k].dimension # name].feedback
    ELSE <<>>

\* CultivatorView.parseAssessmentCallout
parseAssessmentCallout(calloutBlock) ==
    LET split0 == split(calloutBlock, "\n")
        lines == [i \in 1..Len(split0) |-> stripQuoteMarker(split0[i])]
        totalScoreMatch == matchDigitsPts(findLine(lines, <<"*", "*", "T", "o", "t", "a", "l", " ", "S", "c", "o", "r", "e", "*", "*">>))
        totalScore == IF Len(totalScoreMatch) > 0 THEN parseInt(totalScoreMatch) ELSE 0
        maturityLine == findLine(lines, <<"*", "*", "R", "e", "c", "o", "m", "m", "e", "n", "d", "e", "d", " ", "M", "a", "t", "u", "r", "i", "t", "y", "*", "*">>)
        recommendedMaturity ==
            IF Len(maturityLine) = 0 THEN Absent
            ELSE IF includes(maturityLine, <<"E", "v", "e", "r", "g", "r", "e", "e", "n">>) THEN "evergreen"
            ELSE IF includes(maturityLine, <<"T", "r", "e", "e">>) THEN "tree"
            ELSE IF includes(maturityLine, <<"S", "p", "r", "o", "u", "t">>) THEN "sprout"
            ELSE "seed"
        tableLines == SelectSeq(SelectSeq(lines, IsTableLine), HasThreeCells)
        rows == [i \in 1..Len(tableLines) |-> rowOf(tableLines[i])]
        qualityScore ==
            QualityScore_fromScores(
                Vector(10 * scoreOrZero(rows, <<"A", "t", "o", "m", "i", "c", "i", "t", "y">>),
                       10 * scoreOrZero(rows, <<"C", "o", "n", "n", "e", "c", "t", "i", "v", "i", "t", "y">>),
                       10 * scoreOrZero(rows, <<"C", "l", "a", "r", "i", "t", "y">>),
                       10 * scoreOrZero(rows, <<"E", "v", "i", "d", "e", "n", "c", "e">>),
                       10 * scoreOrZero(rows, <<"O", "r", "i", "g", "i", "n", "a", "l", "i", "t", "y">>)))
        improvements == [i \in 1..Len(rows) |->
                            [dimension |-> rows[i].dimension, priority |-> rows[i].priority,
                             suggestion |-> rows[i].feedback]]
    IN  [kind |-> "parsed",
         totalScore |-> totalScore,
         recommendedMaturity |-> recommendedMaturity,
         dimensionFeedback |-> [t \in {getAllTypes[i] : i \in 1..Len(getAllTypes)} |-> feedbackOrEmpty(rows, displayName(t))],
         assessment |-> NoteAssessment_create(qualityScore, defaultLevel, improvements, None)]

-----------------------------------------------------------------------------
(***************************************************************************)
(* SpecCodec: an assessment shown in the sidebar is written as a callout   *)
(* and the callout is read back.                                           *)
(***************************************************************************)

\* new Date().toISOString().split('T')[0]
Today == <<"2", "0", "2", "6", "-", "1", "1", "-", "0", "2">>

\* The longest feedback the callout keeps whole.
FeedbackLimit == 100

Repeat(c, n) == [i \in 1..n |-> c]

Improvement(dimension, suggestion) ==
    [dimension |-> dimension, priority |-> "medium", suggestion |-> suggestion]

\* One improvement per catalog dimension, under the names the view looks up.
AllFive(suggestion) ==
    [i \in 1..Len(getAllTypes) |-> Improvement(displayName(getAllTypes[i]), suggestion)]

\* The improvements AssessNoteQualityUseCase keeps: the dimensions scoring under 70.
UnderSeventy(q) ==
    LET Low(d) == d.score < 70
        low == SelectSeq(q.dimensions, Low)
    IN  [i \in 1..Len(low) |-> Improvement(displayName(low[i].type), <<"A", "d", "d", " ", "a", " ", "s", "o", "u", "r", "c", "e", ".">>)]

ImprovementLists(q) ==
    { <<>>,
      UnderSeventy(q),
      AllFive(<<"A", "d", "d", " ", "a", " ", "s", "o", "u", "r", "c", "e", ".">>),
      AllFive(Repeat("x", FeedbackLimit)),
      AllFive(Repeat("x", FeedbackLimit + 1)),
      AllFive(<<"a", "|", "b">>),
      AllFive(<<>>),
      [AllFive(<<"A", "d", "d", " ", "a", " ", "s", "o", "u", "r", "c", "e", ".">>) EXCEPT ![1].suggestion = <<"S", "c", "o", "r", "e", " ", "e", "a", "c", "h", " ", "D", "i", "m", "e", "n", "s", "i", "o", "n", " ", "a", "l", "o", "n", "e", ".">>],
      [AllFive(<<"A", "d", "d", " ", "a", " ", "s", "o", "u", "r", "c", "e", ".">>) EXCEPT ![1].dimension = <<"U+C6D0", "U+C790", "U+C131">>],
      Append(AllFive(<<"A", "d", "d", " ", "a", " ", "s", "o", "u", "r", "c", "e", ".">>), Improvement(displayName("atomicity"), <<"S", "p", "l", "i", "t", " ", "i", "t", ".">>)) }

CodecVectors ==
    { Vector(800, 800, 800, 800, 800), Vector(500, 500, 500, 500, 500),
      Vector(800, 600, 700, 500, 900), Vector(1000, 0, 650, 70, 300) }

CodecInputs ==
    UNION { { NoteAssessment_create(QualityScore_fromScores(v), current, list, None) :
                list \in ImprovementLists(QualityScore_fromScores(v)) } :
            v \in CodecVectors, current \in {"seed", "tree"} }

InitCodec ==
    /\ codecInput \in CodecInputs
    /\ callout = None
    /\ decoded = None
    /\ content = None
    /\ LevelIdle /\ ScoreIdle /\ MatIdle /\ HistoryIdle /\ PluginIdle

\* CultivatorView.saveAssessmentToNote writes the callout
GenerateAssessmentCallout ==
    /\ callout = None
    /\ callout' = [kind |-> "text", text |-> generateAssessmentCallout(codecInput, Today)]
    /\ UNCHANGED <<codecInput, decoded, content, levelVars, scoreVars, matVars, historyVars, pluginVars>>

\* CultivatorView.loadAssessmentFromNote reads it back
ParseAssessmentCallout ==
    /\ callout # None
    /\ decoded = None
    /\ decoded' = parseAssessmentCallout(callout.text)
    /\ UNCHANGED <<codecInput, callout, content, levelVars, scoreVars, matVars, historyVars, pluginVars>>

NextCodec ==
    \/ GenerateAssessmentCallout
    \/ ParseAssessmentCallout

SpecCodec == InitCodec /\ [][NextCodec]_vars

\* The feedback texts the round trip is stated for: at most 100 characters,
\* no pipes, no newlines.
PlainFeedback(a) ==
    \A i \in 1..Len(a.improvements) :
        /\ Len(a.improvements[i].suggestion) <= 100
        /\ \A k \in 1..Len(a.improvements[i].suggestion) :
               a.improvements[i].suggestion[k] \notin {"|", "\n"}

\* C6: for every assessment whose feedback texts are at most 100 characters
\* with no pipes or newlines, parseAssessmentCallout of the text
\* generateAssessmentCallout wrote yields an assessment with the same total
\* score and the same score for each of the five dimensions.
C6_CalloutRoundTrip ==
    (decoded # None /\ PlainFeedback(codecInput)) =>
        /\ decoded.assessment.qualityScore.totalScore = codecInput.qualityScore.totalScore
        /\ \A type \in DimTypes :
               dimensionScore(decoded.assessment.qualityScore, type)
                   = dimensionScore(codecInput.qualityScore, type)

-----------------------------------------------------------------------------
(***************************************************************************)
(* SpecStore: AssessmentHistoryService call by call, each call awaited     *)
(* before the next, with its two callbacks counted.  The log entered       *)
(* carries, besides the fields of SpecHistory, the number of loadData and  *)
(* saveData invocations and what the last call did.                        *)
(***************************************************************************)

\* The number of service calls in one behaviour.
MaxCalls == 4

\* The assessment every record of this specification is built from.
StoreAssessment ==
    NoteAssessment_create(QualityScore_fromScores(Vector(800, 600, 700, 500, 900)),
                          "seed", <<>>, None)

InitStore ==
    /\ maxPerNote \in 1..MaxCap
    /\ stored \in StoredChoices
    /\ initialized = FALSE
    /\ history = NoRecords
    /\ entered = [initial |-> stored, calls |-> [d \in Docs |-> 0], pushed |-> NoRecords,
                  loads |-> 0, loadFailed |-> FALSE, saves |-> 0, steps |-> 0,
                  lastCall |-> None]
    /\ nextId = 0
    /\ lastDelta = None
    /\ LevelIdle /\ ScoreIdle /\ MatIdle /\ CodecIdle /\ PluginIdle

LoadCount(after) == IF after.loaded THEN 1 ELSE 0

\* await historyService.initialize(), at any time
StoreInitialize ==
    /\ entered.steps < MaxCalls
    /\ \E loadOk \in BOOLEAN :
          LET after == initialize(Service, stored, loadOk)
          IN  /\ initialized' = after.initialized
              /\ history' = after.history
              /\ entered' = [entered EXCEPT
                    !.loads = @ + LoadCount(after),
                    !.loadFailed = @ \/ after.threw,
                    !.steps = @ + 1,
                    !.lastCall = [op |-> "initialize", wasInitialized |-> initialized,
                                  historyBefore |-> history, loadsBefore |-> entered.loads,
                                  savesBefore |-> entered.saves,
                                  loadFailed |-> after.threw, saveFailed |-> FALSE,
                                  appended |-> FALSE,
                                  outcome |-> IF after.threw THEN "load error"
                                              ELSE "resolved"]]
    /\ UNCHANGED <<maxPerNote, stored, nextId, lastDelta,
                   levelVars, scoreVars, matVars, codecVars, pluginVars>>

\* await historyService.addRecord(record)
StoreAddRecord ==
    /\ entered.steps < MaxCalls
    /\ \E notePath \in Docs, loadOk \in BOOLEAN, saveOk \in BOOLEAN :
          LET record == buildAssessmentRecord(StoreAssessment, nextId + 1, notePath, nextId + 1)
              after  == addRecord(Service, record, maxPerNote, stored, loadOk)
          IN  /\ initialized' = after.initialized
              /\ history' = after.history
              /\ stored' = IF after.threw THEN stored
                           ELSE persist(after.history, stored, saveOk)
              /\ entered' = [entered EXCEPT
                    !.calls[notePath] = @ + 1,
                    !.pushed[notePath] = IF after.threw THEN @ ELSE Append(@, record),
                    !.loads = @ + LoadCount(after),
                    !.loadFailed = @ \/ after.threw,
                    !.saves = @ + (IF after.threw THEN 0 ELSE 1),
                    !.steps = @ + 1,
                    !.lastCall = [op |-> "addRecord", wasInitialized |-> initialized,
                                  historyBefore |-> history, loadsBefore |-> entered.loads,
                                  savesBefore |-> entered.saves,
                                  loadFailed |-> after.threw,
                                  saveFailed |-> ~after.threw /\ ~saveOk,
                                  appended |-> ~after.threw,
                                  outcome |-> IF after.threw THEN "load error"
                                              ELSE persistOutcome(saveOk)]]
              /\ nextId' = nextId + 1
    /\ UNCHANGED <<maxPerNote, lastDelta, levelVars, scoreVars, matVars, codecVars, pluginVars>>

NextStore ==
    \/ StoreInitialize
    \/ StoreAddRecord

SpecStore == InitStore /\ [][NextStore]_vars

\* C13: over any sequence of awaited initialize and addRecord calls in which
\* the load callback succeeds, loadData is invoked exactly once, by the first
\* call, and every later initialize leaves the in-memory history unchanged.
C13_InitializeIsIdempotent ==
    (entered.lastCall # None /\ ~entered.loadFailed) =>
        /\ entered.loads = 1
        /\ (entered.lastCall.loadsBefore = 0) <=> (entered.steps = 1)
        /\ (entered.lastCall.op = "initialize" /\ entered.steps > 1) =>
               /\ entered.lastCall.wasInitialized
               /\ history = entered.lastCall.historyBefore
               /\ entered.lastCall.outcome = "resolved"

\* initialize, an addRecord whose save failed, initialize again: the record is
\* still in memory although storage holds nothing to reload it from.
C13_Witness ==
    /\ entered.lastCall # None
    /\ ~entered.loadFailed
    /\ entered.steps = 3
    /\ entered.lastCall.op = "initialize"
    /\ entered.saves = 1
    /\ stored = None
    /\ Len(history["a.md"]) = 1
    /\ entered.loads = 1

\* C14: when the load callback throws or rejects, initialize does not fail:
\* the store ends up initialized with an empty history.
C14_LoadFailureIsNoHistory ==
    (/\ entered.lastCall # None
     /\ entered.lastCall.op = "initialize"
     /\ entered.lastCall.loadFailed) =>
        /\ entered.lastCall.outcome = "resolved"
        /\ initialized
        /\ history = NoRecords

\* C15: when the save callback throws or rejects during addRecord, addRecord
\* rejects with that error; the store neither catches it nor calls saveData
\* again.
C15_SaveFailurePropagates ==
    (/\ entered.lastCall # None
     /\ entered.lastCall.op = "addRecord"
     /\ entered.lastCall.saveFailed) =>
        /\ entered.lastCall.outcome = "save error"
        /\ entered.saves = entered.lastCall.savesBefore + 1

\* An addRecord for b.md rejected with the save error: the record is in memory,
\* storage still has what the earlier, successful save of a.md wrote.
C15_Witness ==
    /\ entered.lastCall # None
    /\ entered.lastCall.op = "addRecord"
    /\ entered.lastCall.saveFailed
    /\ entered.lastCall.outcome = "save error"
    /\ Len(history["b.md"]) = 1
    /\ stored # None
    /\ stored["b.md"] = <<>>
    /\ Len(stored["a.md"]) = 1

-----------------------------------------------------------------------------
(***************************************************************************)
(* The callout inside a note: the block pattern that finds it, and the     *)
(* sidebar's saveAssessmentToNote and loadAssessmentFromNote.              *)
(***************************************************************************)

\* The first index at or after i whose character is not whitespace,
\* Len(s) + 1 when there is none: where a greedy \s* stops.
skipWhitespace(s, i) ==
    CHOOSE k \in i..(Len(s) + 1) :
        /\ (k = Len(s) + 1 \/ ~IsWhitespace(s[k]))
        /\ \A j \in i..(k - 1) : IsWhitespace(s[j])

\* The first newline at or after i, Len(s) + 1 when there is none: where a
\* greedy .* stops.
lineEnd(s, i) ==
    CHOOSE k \in i..(Len(s) + 1) :
        /\ (k = Len(s) + 1 \/ s[k] = "\n")
        /\ \A j \in i..(k - 1) : s[j] # "\n"

\* The index of the newline that ends ^>\s*\[!assessment\][+-]?\s*.*\n when it
\* matches at i, 0 when it does not.  \s* runs over newlines; when the text
\* ends before a newline, the match backs up to the last newline \s* took.
headerEnd(s, i) ==
    IF ~(i <= Len(s) /\ s[i] = ">" /\ (i = 1 \/ s[i - 1] = "\n")) THEN 0
    ELSE LET m == skipWhitespace(s, i + 1)
         IN  IF ~startsWith(SubSeq(s, m, Len(s)),
                            <<"[", "!", "a", "s", "s", "e", "s", "s", "m", "e", "n", "t", "]">>)
             THEN 0
             ELSE LET p == m + 13
                      q == IF p <= Len(s) /\ s[p] \in {"+", "-"} THEN p + 1 ELSE p
                      k == skipWhitespace(s, q)
                      e == lineEnd(s, k)
                  IN  IF e <= Len(s) THEN e
                      ELSE IF \E n \in q..(k - 1) : s[n] = "\n"
                      THEN CHOOSE n \in q..(k - 1) :
                               s[n] = "\n" /\ \A j \in (n + 1)..(k - 1) : s[j] # "\n"
                      ELSE 0

\* Where (?:>.*\n?)* stops when it starts at pos: the index after the last
\* line of the run of lines that begin with >.
RECURSIVE continuationEnd(_, _)
continuationEnd(s, pos) ==
    IF pos <= Len(s) /\ s[pos] = ">"
    THEN LET e == lineEnd(s, pos)
         IN  IF e <= Len(s) THEN continuationEnd(s, e + 1) ELSE Len(s) + 1
    ELSE pos

\* content.match(ASSESSMENT_CALLOUT_BLOCK_REGEX): the leftmost match, or None
matchCalloutBlock(s) ==
    IF \E i \in 1..Len(s) : headerEnd(s, i) > 0
    THEN LET i == CHOOSE j \in 1..Len(s) :
                      headerEnd(s, j) > 0 /\ \A k \in 1..(j - 1) : headerEnd(s, k) = 0
             stop == continuationEnd(s, headerEnd(s, i) + 1)
         IN  [kind |-> "match", index |-> i, text |-> SubSeq(s, i, stop - 1),
              before |-> SubSeq(s, 1, i - 1), after |-> SubSeq(s, stop, Len(s))]
    ELSE None

\* The concatenation of a sequence of texts, by halves.
RECURSIVE concat(_)
concat(texts) ==
    IF Len(texts) = 0 THEN <<>>
    ELSE IF Len(texts) = 1 THEN texts[1]
    ELSE concat(SubSeq(texts, 1, Len(texts) \div 2))
            \o concat(SubSeq(texts, (Len(texts) \div 2) + 1, Len(texts)))

\* The length of the replacement pattern that starts at r[i], 0 when none
\* does: $$, $&, $`, $' and $1 or $01 for the one group of the block pattern.
\* A $ that an earlier $$ took starts nothing.
patternLength(r, i) ==
    LET first == CHOOSE k \in 0..(i - 1) :
                     /\ (k = 0 \/ r[k] # "$")
                     /\ \A j \in (k + 1)..(i - 1) : r[j] = "$"
    IN  IF r[i] # "$" \/ (i - 1 - first) % 2 = 1 \/ i = Len(r) THEN 0
        ELSE IF r[i + 1] \in {"$", "&", "`", "'", "1"} THEN 2
        ELSE IF r[i + 1] = "0" /\ i + 2 <= Len(r) /\ r[i + 2] = "1" THEN 3
        ELSE 0

\* What String.prototype.replace(pattern, replacement) puts in place of the
\* match when the replacement is a string: its patterns are expanded.
expandReplacement(r, match) ==
    LET Taken(i) == \E j \in {i - 1, i - 2} : j >= 1 /\ patternLength(r, j) > i - j
        piece(i) ==
            IF patternLength(r, i) > 0
            THEN CASE r[i + 1] = "$" -> <<"$">>
                   [] r[i + 1] = "&" -> match.text
                   [] r[i + 1] = "`" -> match.before
                   [] r[i + 1] = "'" -> match.after
                   [] OTHER          -> match.text
            ELSE IF Taken(i) THEN <<>>
            ELSE <<r[i]>>
    IN  concat([i \in 1..Len(r) |-> piece(i)])

\* content.replace(/\s+$/, '')
trimEnd(s) ==
    IF \A i \in 1..Len(s) : IsWhitespace(s[i]) THEN <<>>
    ELSE LET last == CHOOSE i \in 1..Len(s) :
                         ~IsWhitespace(s[i]) /\ \A k \in (i + 1)..Len(s) : IsWhitespace(s[k])
         IN  SubSeq(s, 1, last)

\* CultivatorView.saveAssessmentToNote: the content vault.modify receives
saveAssessmentToNote(text, block) ==
    LET match == matchCalloutBlock(text)
    IN  IF match # None
        THEN match.before \o expandReplacement(block, match) \o match.after
        ELSE trimEnd(text) \o <<"\n", "\n">> \o block \o <<"\n">>

\* CultivatorView.loadAssessmentFromNote: what becomes lastAssessment, None
\* when the note has no block
loadAssessmentFromNote(text) ==
    LET match == matchCalloutBlock(text)
    IN  IF match = None THEN None ELSE parseAssessmentCallout(match.text)

-----------------------------------------------------------------------------
(***************************************************************************)
(* SpecNote: the sidebar saves the assessment it shows into the note and   *)
(* loads the saved assessment when the note is opened again.               *)
(***************************************************************************)

\* The saves one behaviour makes.
MaxSaves == 2

\* A block as an earlier save left it.
EarlierBlock ==
    <<">", " ", "[", "!", "a", "s", "s", "e", "s", "s", "m", "e", "n", "t", "]", "-", " ", "U+1F4CA", " ", "Q", "u", "a", "l", "i", "t", "y", " ", "A", "s", "s", "e", "s", "s", "m", "e", "n", "t", " ", "R", "e", "s", "u", "l", "t", "s", " ", "(", "2", "0", "2", "6", "-", "1", "0", "-", "0", "1", ")", "\n", ">", " ", "*", "*", "T", "o", "t", "a", "l", " ", "S", "c", "o", "r", "e", "*", "*", ":", " ", "4", "5", "p", "t", "s", " ", "(", "D", ")", "\n", ">", "\n", ">", " ", "|", " ", "D", "i", "m", "e", "n", "s", "i", "o", "n", " ", "|", " ", "S", "c", "o", "r", "e", " ", "|", " ", "F", "e", "e", "d", "b", "a", "c", "k", " ", "|", "\n", ">", " ", "|", "-", "-", "-", "-", "-", "-", "-", "-", "-", "-", "-", "|", "-", "-", "-", "-", "-", "-", "-", "|", "-", "-", "-", "-", "-", "-", "-", "-", "-", "-", "|", "\n", ">", " ", "|", " ", "E", "v", "i", "d", "e", "n", "c", "e", " ", "|", " ", "4", "0", "p", "t", "s", " ", "|", " ", "C", "i", "t", "e", " ", "i", "t", ".", " ", "|", "\n">>

\* The notes: without a block, with a whole one, with a damaged one.
NoteTexts ==
    { <<>>,
      <<"#", " ", "N", "o", "t", "e", "\n", "\n", "B", "o", "d", "y", " ", "t", "e", "x", "t", ".", "\n">>,
      <<"#", " ", "N", "o", "t", "e", "\n", "\n", "B", "o", "d", "y", " ", "t", "e", "x", "t", ".", " ", " ", "\n", "\n">>,
      <<"S", "e", "e", " ", ">", " ", "[", "!", "a", "s", "s", "e", "s", "s", "m", "e", "n", "t", "]", " ", "a", "b", "o", "v", "e", ".", "\n">>,
      <<"#", " ", "N", "o", "t", "e", "\n", "\n">> \o EarlierBlock \o <<"\n", "#", "#", " ", "A", "f", "t", "e", "r", "\n">>,
      <<"#", " ", "N", "o", "t", "e", "\n", "\n">> \o EarlierBlock \o <<"A", "f", "t", "e", "r", " ", "t", "e", "x", "t", ".", "\n">>,
      <<"#", " ", "N", "o", "t", "e", "\n", "\n">> \o EarlierBlock,
      <<">", " ", "[", "!", "a", "s", "s", "e", "s", "s", "m", "e", "n", "t", "]", "\n">>,
      <<"B", "o", "d", "y", " ", "t", "e", "x", "t", ".", "\n", ">", " ", "[", "!", "a", "s", "s", "e", "s", "s", "m", "e", "n", "t", "]", "-", " ", "U+1F4CA", " ", "Q", "u", "a", "l", "i", "t", "y", " ", "A", "s", "s", "e", "s", "s", "m", "e", "n", "t", " ", "R", "e", "s", "u", "l", "t", "s", " ", "(", "2", "0", "2", "6", "-", "1", "0", "-", "0", "1", ")">>,
      <<">", " ", "[", "!", "a", "s", "s", "e", "s", "s", "m", "e", "n", "t", "]", "+", " ", "e", "d", "i", "t", "e", "d", "\n", ">", " ", "*", "*", "T", "o", "t", "a", "l", " ", "S", "c", "o", "r", "e", "*", "*", ":", " ", "m", "a", "n", "y", "\n", ">", " ", "|", " ", "A", "t", "o", "m", "i", "c", "i", "t", "y", " ", "|", " ", "2", "5", "0", "p", "t", "s", " ", "|", " ", "b", "i", "g", " ", "|", "\n", ">", " ", "|", " ", "C", "l", "a", "r", "i", "t", "y", " ", "|", " ", "n", "/", "a", " ", "|", " ", "n", "o", "n", "e", " ", "|", "\n", ">", " ", "|", " ", "E", "v", "i", "d", "e", "n", "c", "e", " ", "|", " ", "4", "0", "p", "t", "s", " ", "|", "\n", ">", " ", "|", " ", "O", "r", "i", "g", "i", "n", "a", "l", "i", "t", "y", " ", "3", "0", "p", "t", "s", "\n", ">", " ", "|", " ", "C", "o", "n", "n", "e", "c", "t", "i", "v", "i", "t", "y", " ", "|", " ", "7", " ", "|", " ", "a", "\\", "|", "b", " ", "|", "\n">> }

\* The assessments the sidebar saves.
NoteAssessments ==
    { NoteAssessment_create(QualityScore_fromScores(Vector(800, 600, 700, 500, 900)), "seed",
                            AllFive(<<"A", "d", "d", " ", "a", " ", "s", "o", "u", "r", "c", "e", ".">>), None),
      NoteAssessment_create(QualityScore_fromScores(Vector(500, 500, 500, 500, 500)), "tree",
                            <<>>, None),
      NoteAssessment_create(QualityScore_fromScores(Vector(800, 600, 700, 500, 900)), "seed",
                            <<Improvement(displayName("evidence"), <<"C", "o", "s", "t", "s", " ", "$", "1", " ", "a", " ", "p", "a", "g", "e", ".">>)>>, None) }

SavesDone == IF callout = None THEN 0 ELSE callout.saves

InitNote ==
    /\ content \in NoteTexts
    /\ codecInput = None
    /\ callout = None
    /\ decoded = None
    /\ LevelIdle /\ ScoreIdle /\ MatIdle /\ HistoryIdle /\ PluginIdle

\* CultivatorView.saveAssessmentToNote with lastAssessment = a
SaveAssessmentToNote ==
    /\ SavesDone < MaxSaves
    /\ \E a \in NoteAssessments :
          LET block == generateAssessmentCallout(a, Today)
          IN  /\ codecInput' = a
              /\ callout' = [kind |-> "text", text |-> block, into |-> content,
                             saves |-> SavesDone + 1]
              /\ content' = saveAssessmentToNote(content, block)
    /\ UNCHANGED <<decoded, levelVars, scoreVars, matVars, historyVars, pluginVars>>

\* CultivatorView.loadAssessmentFromNote when the note is opened
LoadAssessmentFromNote ==
    /\ decoded' = [kind |-> "loaded", from |-> content,
                   result |-> loadAssessmentFromNote(content)]
    /\ UNCHANGED <<codecInput, callout, content, levelVars, scoreVars, matVars, historyVars, pluginVars>>

NextNote ==
    \/ SaveAssessmentToNote
    \/ LoadAssessmentFromNote

SpecNote == InitNote /\ [][NextNote]_vars

\* The lines of a block the decoder takes a dimension's score from: a table
\* line of at least three cells whose first cell is the dimension's name.
HasParseableRow(block, name) ==
    LET split0 == split(block, "\n")
    IN  \E i \in 1..Len(split0) :
            LET line == stripQuoteMarker(split0[i])
            IN  IsTableLine(line) /\ HasThreeCells(line) /\ cellsOf(line)[1] = name

\* A block is in the note: some line begins with > and the marker.
MarkerLinePresent(text) ==
    LET split0 == split(text, "\n")
    IN  \E i \in 1..Len(split0) :
            /\ startsWith(split0[i], <<">">>)
            /\ startsWith(trim(Tail(split0[i])), <<"[", "!", "a", "s", "s", "e", "s", "s", "m", "e", "n", "t", "]">>)

\* What decoding owes a note with a block: an assessment whose dimensions
\* are within 0..100 and are 0, without feedback, where the block has no row.
DecodedWithDefaults(block, result) ==
    /\ result # None
    /\ result.kind = "parsed"
    /\ \A i \in 1..Len(getAllTypes) :
          LET d == result.assessment.qualityScore.dimensions[i]
          IN  /\ d.type = getAllTypes[i]
              /\ d.score \in MinScore..MaxScore
              /\ ~HasParseableRow(block, displayName(d.type))
                    => d.score = 0 /\ result.dimensionFeedback[d.type] = <<>>

\* C17 as stated: loading never fails; a note without a block yields nothing,
\* and a note with a block, however malformed or partial, yields an
\* assessment whose dimensions without a parseable row score 0 with empty
\* feedback and whose scores are all within 0..100.
C17_AnyBlockDecodes ==
    decoded # None =>
        IF MarkerLinePresent(decoded.from)
        THEN LET match == matchCalloutBlock(decoded.from)
             IN  match # None /\ DecodedWithDefaults(match.text, decoded.result)
        ELSE decoded.result = None

\* C17, amended: loading never fails; it yields nothing when the block
\* pattern finds no marker line that a newline ends, and otherwise an
\* assessment whose dimensions without a parseable row score 0 with empty
\* feedback and whose scores are all within 0..100.
C17_DecodeNeverFails ==
    decoded # None =>
        LET match == matchCalloutBlock(decoded.from)
        IN  IF match = None THEN decoded.result = None
            ELSE DecodedWithDefaults(match.text, decoded.result)

\* A hand-edited block was loaded: a 250pts row became 100, a dimension
\* without a row became 0.
C17_Witness ==
    /\ decoded # None
    /\ decoded.result # None
    /\ includes(decoded.from, <<"|", " ", "A", "t", "o", "m", "i", "c", "i", "t", "y", " ", "|", " ", "2", "5", "0", "p", "t", "s", " ", "|">>)
    /\ decoded.result.assessment.qualityScore.dimensions[1].score = 100
    /\ ~HasParseableRow(decoded.from, displayName("originality"))
    /\ decoded.result.assessment.qualityScore.dimensions[5].score = 0
    /\ decoded.result.dimensionFeedback["originality"] = <<>>

\* The number of blocks the pattern finds in a text, one after the other.
RECURSIVE BlockCount(_)
BlockCount(text) ==
    LET match == matchCalloutBlock(text)
    IN  IF match = None THEN 0 ELSE 1 + BlockCount(match.after)

\* C18: a save into a note that has a block puts the new block where the old
\* one was, and a save into a note without one appends the new block after
\* the trimmed content and a blank line; after any saves into a note that
\* began with at most one block, the note has exactly one block, the one
\* saved last.
C18_ReplaceOrAppend ==
    callout # None =>
        LET old == matchCalloutBlock(callout.into)
            now == matchCalloutBlock(content)
        IN  /\ IF old # None
               THEN content = old.before \o callout.text \o old.after
               ELSE content = trimEnd(callout.into) \o <<"\n", "\n">> \o callout.text \o <<"\n">>
            /\ BlockCount(content) = 1
            /\ now.text \in {callout.text, callout.text \o <<"\n">>}

-----------------------------------------------------------------------------
(***************************************************************************)
(* SpecAssess: AssessNoteQualityUseCase.execute on what the provider       *)
(* answers.  A parsed answer is [kind, dimensions, improvements,           *)
(* splitSuggestion], its dimension scores in tenths of a point.            *)
(***************************************************************************)

\* dimensionNameMap[name], Absent when the name is not a key
dimensionNameMap(name) ==
    CASE name = <<"U+C6D0", "U+C790", "U+C131">> -> "atomicity"
      [] name = <<"U+C5F0", "U+ACB0", "U+C131">> -> "connectivity"
      [] name = <<"U+BA85", "U+D655", "U+C131">> -> "clarity"
      [] name = <<"U+ADFC", "U+AC70">> -> "evidence"
      [] name = <<"U+B3C5", "U+CC3D", "U+C131">> -> "originality"
      [] OTHER -> Absent

\* the filter over parsed.improvements
keepsImprovement(parsed, imp) ==
    LET dimKey == dimensionNameMap(imp.dimension)
    IN  IF dimKey = Absent THEN TRUE
        ELSE parsed.dimensions[dimKey] < 10 * 70

NoAssessment(error) == [assessment |-> None, error |-> error]

\* AssessNoteQualityUseCase.execute
AssessNoteQualityUseCase_execute(input) ==
    IF input.content = "short" THEN NoAssessment("too short")
    ELSE IF input.response.kind = "failed" THEN NoAssessment("request failed")
    ELSE IF input.response.kind = "unparseable" THEN NoAssessment("parse failed")
    ELSE LET parsed == input.response
             qualityScore == QualityScore_fromScores(parsed.dimensions)
             currentMaturity == fromFrontmatter(input.growthStage)
             Keeps(imp) == keepsImprovement(parsed, imp)
             improvements == SelectSeq(parsed.improvements, Keeps)
         IN  [assessment |-> NoteAssessment_create(qualityScore, currentMaturity, improvements,
                                                   parsed.splitSuggestion),
              error |-> Absent]

koreanName(type) ==
    CASE type = "atomicity"    -> <<"U+C6D0", "U+C790", "U+C131">>
      [] type = "connectivity" -> <<"U+C5F0", "U+ACB0", "U+C131">>
      [] type = "clarity"      -> <<"U+BA85", "U+D655", "U+C131">>
      [] type = "evidence"     -> <<"U+ADFC", "U+AC70">>
      [] type = "originality"  -> <<"U+B3C5", "U+CC3D", "U+C131">>

\* One improvement per catalog dimension under the names of dimensionNameMap.
AllFiveKorean ==
    [i \in 1..Len(getAllTypes) |-> Improvement(koreanName(getAllTypes[i]), <<"A", "d", "d", " ", "a", " ", "s", "o", "u", "r", "c", "e", ".">>)]

\* The answers of the provider: scores, improvements under either set of
\* names or under no known name, with or without a split suggestion.
ParsedResponses ==
    { [kind |-> "parsed", dimensions |-> v, improvements |-> list, splitSuggestion |-> s] :
        v \in { Vector(800, 600, 700, 500, 900), Vector(400, 300, 650, 200, 100),
                Vector(490, 696, 704, 1000, 0), Vector(500, 700, 690, 710, 850) },
        list \in { <<>>, AllFiveKorean, AllFive(<<"A", "d", "d", " ", "a", " ", "s", "o", "u", "r", "c", "e", ".">>),
                   <<Improvement(<<"S", "t", "r", "u", "c", "t", "u", "r", "e">>, <<"A", "d", "d", " ", "h", "e", "a", "d", "i", "n", "g", "s", ".">>)>>,
                   <<Improvement(koreanName("evidence"), <<"C", "i", "t", "e", " ", "i", "t", ".">>),
                     Improvement(displayName("atomicity"), <<"S", "p", "l", "i", "t", " ", "i", "t", ".">>)>> },
        s \in { None, [reason |-> "several ideas"] } }

AssessInputs ==
    { [content |-> "long", growthStage |-> g, response |-> r] :
        g \in {Absent, "seed", "tree"}, r \in ParsedResponses }
    \cup { [content |-> c, growthStage |-> Absent, response |-> r] :
             c \in {"short", "long"}, r \in {[kind |-> "failed"], [kind |-> "unparseable"]} }

InitAssess ==
    /\ ScoreIdle /\ LevelIdle /\ MatIdle /\ HistoryIdle /\ CodecIdle /\ PluginIdle

\* One evaluation: supplied is the input, assessment what execute returned.
AssessExecute ==
    /\ \E input \in AssessInputs :
          /\ supplied' = input
          /\ assessment' = AssessNoteQualityUseCase_execute(input)
    /\ UNCHANGED <<rawScores, qs, levelVars, matVars, historyVars, codecVars, pluginVars>>

NextAssess == AssessExecute

SpecAssess == InitAssess /\ [][NextAssess]_vars

\* The catalog dimension an improvement's name stands for, Absent when it
\* names none.
NamedDimension(name) ==
    IF \E i \in 1..Len(getAllTypes) :
          name \in {koreanName(getAllTypes[i]), displayName(getAllTypes[i])}
    THEN getAllTypes[CHOOSE i \in 1..Len(getAllTypes) :
             name \in {koreanName(getAllTypes[i]), displayName(getAllTypes[i])}]
    ELSE Absent

\* C19: every improvement of an assessment execute returns refers to a
\* dimension whose score is below 70; the answers' entries for dimensions
\* at 70 or more are dropped.
C19_ImprovementsBelowSeventy ==
    (assessment # None /\ assessment.assessment # None) =>
        \A i \in 1..Len(assessment.assessment.improvements) :
            LET type == NamedDimension(assessment.assessment.improvements[i].dimension)
            IN  type # Absent =>
                    dimensionScore(assessment.assessment.qualityScore, type) < 70

\* C20: an assessment execute returns carries a split suggestion only when
\* its atomicity score is below 50.
C20_SplitOnlyWhenAtomicityLow ==
    (assessment # None /\ assessment.assessment # None
        /\ assessment.assessment.splitSuggestion # None) =>
        dimensionScore(assessment.assessment.qualityScore, "atomicity") < 50

-----------------------------------------------------------------------------
(***************************************************************************)
(* SpecRuns: evaluation runs started from the modal and from the sidebar,  *)
(* with settings.history.enabled as the plugin loaded it.                  *)
(***************************************************************************)

\* The evaluation runs of one behaviour.
MaxRuns == 3

\* What AssessNoteQualityUseCase.execute returns to a view: an assessment or none.
RunOutcomes == HistoryAssessments \cup {None}

Run(view, notePath, result, id) ==
    [kind |-> "run", view |-> view, notePath |-> notePath, produced |-> result # None,
     enabled |-> settings.memory.enabled, id |-> id, historyBefore |-> history]

InitRuns ==
    /\ settings \in {[memory |-> [enabled |-> e], data |-> None] : e \in BOOLEAN}
    /\ maxPerNote \in 1..MaxCap
    /\ stored \in StoredChoices
    /\ initialized = TRUE
    /\ history = LoadedMap(stored)
    /\ entered = [initial |-> stored, calls |-> [d \in Docs |-> 0], pushed |-> NoRecords,
                  lastRun |-> None]
    /\ nextId = 0
    /\ lastDelta = None
    /\ sidebar = None
    /\ inflight = None
    /\ LevelIdle /\ ScoreIdle /\ MatIdle /\ CodecIdle

\* AssessmentModal.runAnalysis: the assessment, then the record when history is enabled
ModalRun ==
    /\ nextId < MaxRuns
    /\ \E notePath \in Docs, result \in RunOutcomes, saveOk \in BOOLEAN :
          LET record == buildAssessmentRecord(result, nextId + 1, notePath, nextId + 1)
              run == Run("modal", notePath, result, nextId + 1)
          IN  IF result # None /\ settings.memory.enabled
              THEN LET after == addRecord(Service, record, maxPerNote, stored, TRUE)
                   IN  /\ lastDelta' = DeltaCall("runAnalysis", notePath, record)
                       /\ initialized' = after.initialized
                       /\ history' = after.history
                       /\ stored' = persist(after.history, stored, saveOk)
                       /\ entered' = [entered EXCEPT !.calls[notePath] = @ + 1,
                                                     !.pushed[notePath] = Append(@, record),
                                                     !.lastRun = run]
                       /\ nextId' = nextId + 1
              ELSE /\ entered' = [entered EXCEPT !.lastRun = run]
                   /\ nextId' = nextId + 1
                   /\ UNCHANGED <<stored, initialized, history, lastDelta>>
    /\ UNCHANGED <<maxPerNote, levelVars, scoreVars, matVars, codecVars, pluginVars>>

\* CultivatorView.runAssessment: the assessment becomes lastAssessment
SidebarRun ==
    /\ nextId < MaxRuns
    /\ \E notePath \in Docs, result \in RunOutcomes :
          /\ entered' = [entered EXCEPT !.lastRun = Run("sidebar", notePath, result, nextId + 1)]
          /\ nextId' = nextId + 1
    /\ UNCHANGED <<maxPerNote, stored, initialized, history, lastDelta,
                   levelVars, scoreVars, matVars, codecVars, pluginVars>>

NextRuns ==
    \/ ModalRun
    \/ SidebarRun

SpecRuns == InitRuns /\ [][NextRuns]_vars

\* The records of a list that carry the id.
WithId(records, id) == SelectSeq(records, LAMBDA r : r.id = id)

\* C21: a run that produces an assessment while history is enabled adds
\* exactly one record for its note to the store, from the modal and from
\* the sidebar alike, and a run with history disabled adds none.
C21_RecordPerRun ==
    entered.lastRun # None =>
        LET run == entered.lastRun
        IN  IF run.produced /\ run.enabled
            THEN /\ Len(WithId(history[run.notePath], run.id)) = 1
                 /\ Last(history[run.notePath]).id = run.id
                 /\ \A d \in Docs \ {run.notePath} : history[d] = run.historyBefore[d]
            ELSE history = run.historyBefore

-----------------------------------------------------------------------------
(***************************************************************************)
(* SpecGrade: getGrade on every total a QualityScore can hold.             *)
(***************************************************************************)

\* calculateTotalScore rounds a weighted mean of scores within 0..100
Totals == MinScore..MaxScore

InitGrade ==
    /\ probe = None
    /\ ScoreIdle /\ MatIdle /\ HistoryIdle /\ CodecIdle /\ PluginIdle

\* getGrade() on a QualityScore whose totalScore is total
ApplyGetGrade ==
    /\ \E total \in Totals :
          probe' = [kind |-> "graded", totalScore |-> total, grade |-> getGrade(total)]
    /\ UNCHANGED <<scoreVars, matVars, historyVars, codecVars, pluginVars>>

NextGrade == ApplyGetGrade

SpecGrade == InitGrade /\ [][NextGrade]_vars

\* The bands as stated.
StatedBands ==
    [A |-> 90..100, B |-> 80..89, C |-> 70..79, D |-> 60..69, F |-> 0..59]

\* C22: getGrade is a function of totalScore alone, and the grade is the
\* one band that holds the total: A 90..100, B 80..89, C 70..79, D 60..69,
\* F 0..59.
C22_GradeBands ==
    probe # None =>
        /\ probe.grade \in DOMAIN StatedBands
        /\ probe.totalScore \in StatedBands[probe.grade]
        /\ \A g \in DOMAIN StatedBands \ {probe.grade} :
              probe.totalScore \notin StatedBands[g]

\* The example total: 70 was graded C.
C22_Witness ==
    /\ probe # None
    /\ probe.totalScore = 70
    /\ probe.grade = "C"

-----------------------------------------------------------------------------
(***************************************************************************)
(* SpecExtremes: getWeakestDimension and getStrongestDimension on scores   *)
(* created from dimension lists in several orders.                         *)
(***************************************************************************)

\* strongest after the forEach has visited the first n entries of the Map
RECURSIVE strongestAfter(_, _)
strongestAfter(map, n) ==
    IF n = 0 THEN None
    ELSE LET strongest == strongestAfter(map, n - 1)
         IN  IF strongest = None \/ map[n].score > strongest.score THEN map[n] ELSE strongest

\* QualityScore.getStrongestDimension
getStrongestDimension(q) == strongestAfter(q.dimensions, Len(q.dimensions))

\* weakest after the forEach has visited the first n entries of the Map
RECURSIVE weakestAfter(_, _)
weakestAfter(map, n) ==
    IF n = 0 THEN None
    ELSE LET weakest == weakestAfter(map, n - 1)
         IN  IF weakest = None \/ map[n].score < weakest.score THEN map[n] ELSE weakest

\* QualityScore.getWeakestDimension
getWeakestDimension(q) == weakestAfter(q.dimensions, Len(q.dimensions))

\* Scores with ties: every dimension at 30 or at 70, and the documented example.
ExtremeVectors == [DimTypes -> {300, 700}] \cup {Vector(800, 600, 700, 500, 900)}

\* The catalog in order, reversed, and begun at clarity.
ExtremeLists(r) ==
    LET n == Len(getAllTypes)
    IN  { InOrder(r),
          [i \in 1..n |-> InOrder(r)[n + 1 - i]],
          SubSeq(InOrder(r), 3, n) \o SubSeq(InOrder(r), 1, 2) }

InitExtremes ==
    /\ rawScores \in ExtremeVectors
    /\ supplied \in ExtremeLists(rawScores)
    /\ qs = None
    /\ assessment = None
    /\ LevelIdle /\ MatIdle /\ HistoryIdle /\ CodecIdle /\ PluginIdle

\* getWeakestDimension() and getStrongestDimension() on the score created last
ApplyExtremes ==
    /\ qs # None
    /\ probe' = [kind |-> "extremes",
                 weakest |-> getWeakestDimension(qs.result),
                 strongest |-> getStrongestDimension(qs.result)]
    /\ UNCHANGED <<scoreVars, matVars, historyVars, codecVars, pluginVars>>

NextExtremes ==
    \/ Create
    \/ ApplyExtremes

SpecExtremes == InitExtremes /\ [][NextExtremes]_vars

\* The first type in catalog order among the dimensions of q with the score.
FirstInCatalog(q, score) ==
    getAllTypes[CHOOSE i \in 1..Len(getAllTypes) :
        /\ dimensionScore(q, getAllTypes[i]) = score
        /\ \A k \in 1..(i - 1) : dimensionScore(q, getAllTypes[k]) # score]

\* C23: getWeakestDimension returns a dimension of the minimum score and
\* getStrongestDimension one of the maximum score, and among tied
\* dimensions the first in catalog order, in whatever order the dimensions
\* were handed to create.
C23_ExtremesByCatalogOrder ==
    probe # None =>
        LET q == qs.result
            scores == {q.dimensions[i].score : i \in 1..Len(q.dimensions)}
            lowest == CHOOSE s \in scores : \A t \in scores : s <= t
            highest == CHOOSE s \in scores : \A t \in scores : s >= t
        IN  /\ probe.weakest.score = lowest
            /\ probe.strongest.score = highest
            /\ probe.weakest.type = FirstInCatalog(q, lowest)
            /\ probe.strongest.type = FirstInCatalog(q, highest)

\* The recommended-maturity line of the block in a text, <<>> when the
\* block has none.
RecommendedLine(text) ==
    LET split0 == split(matchCalloutBlock(text).text, "\n")
    IN  findLine([i \in 1..Len(split0) |-> stripQuoteMarker(split0[i])],
                 <<"*", "*", "R", "e", "c", "o", "m", "m", "e", "n", "d", "e", "d", " ", "M", "a", "t", "u", "r", "i", "t", "y", "*", "*">>)

\* C24: the recommended maturity of a decoded assessment is the stage whose
\* display name stands on the block's recommended-maturity line, seed when
\* the line names no stage.
C24_RecommendedFromLine ==
    (decoded # None /\ decoded.result # None /\ RecommendedLine(decoded.from) # <<>>) =>
        LET line == RecommendedLine(decoded.from)
            recommended == decoded.result.assessment.recommendedMaturity
        IN  IF \E l \in Levels : includes(line, levelDisplayName(l))
            THEN includes(line, levelDisplayName(recommended))
            ELSE recommended = "seed"

-----------------------------------------------------------------------------
(***************************************************************************)
(* SpecSidebar: CultivatorView while notes are opened and its asynchronous *)
(* calls are under way.  A call that awaits is a task in inflight; it ends *)
(* in a later step, after any other event.  An assessment is known by the  *)
(* note it was computed or decoded from; a note of the vault by the note   *)
(* its text is from and the note its block is from.                        *)
(***************************************************************************)

\* The calls that may be awaiting at once.
MaxInflight == 2

Task(op, file, of) == [op |-> op, file |-> file, of |-> of]

Held(of, via) == [kind |-> "assessment", of |-> of, via |-> via]

InitSidebar ==
    /\ sidebar = [currentFile |-> Absent, lastAssessment |-> None, isLoadedFromNote |-> FALSE,
                  vault |-> [d \in Docs |->
                                [text |-> d, block |-> IF d = "a.md" THEN d ELSE Absent]]]
    /\ inflight = {}
    /\ settings = None
    /\ LevelIdle /\ ScoreIdle /\ MatIdle /\ HistoryIdle /\ CodecIdle

\* onFileOpen up to await this.loadAssessmentFromNote(file)
FileOpen ==
    /\ \E file \in Docs \cup {Absent} :
          /\ sidebar' = [sidebar EXCEPT !.currentFile = file, !.lastAssessment = None,
                                        !.isLoadedFromNote = FALSE]
          /\ IF file = Absent THEN inflight' = inflight
             ELSE /\ Cardinality(inflight \cup {Task("load", file, file)}) <= MaxInflight
                  /\ inflight' = inflight \cup {Task("load", file, file)}
    /\ UNCHANGED <<settings, levelVars, scoreVars, matVars, historyVars, codecVars>>

\* loadAssessmentFromNote after cachedRead has resolved
LoadCompletes ==
    /\ \E task \in inflight :
          /\ task.op = "load"
          /\ inflight' = inflight \ {task}
          /\ IF sidebar.vault[task.file].block # Absent
             THEN sidebar' = [sidebar EXCEPT !.lastAssessment = Held(task.file, "note"),
                                             !.isLoadedFromNote = TRUE]
             ELSE sidebar' = sidebar
    /\ UNCHANGED <<settings, levelVars, scoreVars, matVars, historyVars, codecVars>>

\* runAssessment up to await useCase.execute: the note data are those of currentFile
RunAssessment ==
    /\ sidebar.currentFile # Absent
    /\ Cardinality(inflight \cup {Task("run", sidebar.currentFile, sidebar.currentFile)})
          <= MaxInflight
    /\ inflight' = inflight \cup {Task("run", sidebar.currentFile, sidebar.currentFile)}
    /\ UNCHANGED <<sidebar, settings, levelVars, scoreVars, matVars, historyVars, codecVars>>

\* runAssessment after execute has resolved, with an assessment or without
RunCompletes ==
    /\ \E task \in inflight, produced \in BOOLEAN :
          /\ task.op = "run"
          /\ inflight' = inflight \ {task}
          /\ IF produced
             THEN sidebar' = [sidebar EXCEPT !.lastAssessment = Held(task.file, "run")]
             ELSE sidebar' = sidebar
    /\ UNCHANGED <<settings, levelVars, scoreVars, matVars, historyVars, codecVars>>

\* saveAssessmentToNote up to await this.app.vault.read(this.currentFile)
SaveToNote ==
    /\ sidebar.currentFile # Absent
    /\ sidebar.lastAssessment # None
    /\ LET task == Task("save", sidebar.currentFile, sidebar.lastAssessment.of)
       IN  /\ Cardinality(inflight \cup {task}) <= MaxInflight
           /\ inflight' = inflight \cup {task}
    /\ UNCHANGED <<sidebar, settings, levelVars, scoreVars, matVars, historyVars, codecVars>>

\* saveAssessmentToNote after the read: vault.modify(this.currentFile, content);
\* without a current file modify throws and the catch reports it
SaveCompletes ==
    /\ \E task \in inflight :
          /\ task.op = "save"
          /\ inflight' = inflight \ {task}
          /\ IF sidebar.currentFile = Absent THEN sidebar' = sidebar
             ELSE sidebar' = [sidebar EXCEPT
                                 !.vault[sidebar.currentFile] =
                                     [text |-> sidebar.vault[task.file].text, block |-> task.of],
                                 !.isLoadedFromNote = TRUE]
    /\ UNCHANGED <<settings, levelVars, scoreVars, matVars, historyVars, codecVars>>

NextSidebar ==
    \/ FileOpen
    \/ LoadCompletes
    \/ RunAssessment
    \/ RunCompletes
    \/ SaveToNote
    \/ SaveCompletes

SpecSidebar == InitSidebar /\ [][NextSidebar]_vars

\* C25: under every interleaving of file-open events, loads and runs, the
\* assessment the sidebar holds is of the note that is open, and 'Save to
\* Note' never writes the assessment of one note into another.
C25_AssessmentOfOpenNote ==
    /\ sidebar.lastAssessment # None => sidebar.lastAssessment.of = sidebar.currentFile
    /\ \A d \in Docs : sidebar.vault[d].block \in {Absent, d}

-----------------------------------------------------------------------------
(***************************************************************************)
(* SpecData: saveSettings and the history service's save callback on the   *)
(* plugin data.  Each awaits loadData(), builds the data to write and      *)
(* awaits saveData().  inflight is the queue of the loadData and saveData  *)
(* calls that have been made and have not resolved; they resolve in the    *)
(* order they were made.  The settings are known by the number of changes  *)
(* made to them, the history by the number of records added to it.         *)
(***************************************************************************)

\* The changes to the settings and the records added in one behaviour.
MaxEdits == 2

PluginData(savedSettings, assessmentHistory) ==
    [settings |-> savedSettings, assessmentHistory |-> assessmentHistory]

\* A call under way: value is the data it will write; while it awaits
\* loadData only the part it brought along counts, the rest is 0.
Write(op, pc, value) == [op |-> op, pc |-> pc, value |-> value]

InitData ==
    /\ settings = [memory |-> 0, history |-> 0, data |-> PluginData(0, 0)]
    /\ inflight = <<>>
    /\ sidebar = None
    /\ LevelIdle /\ ScoreIdle /\ MatIdle /\ HistoryIdle /\ CodecIdle

\* a settings control's onChange: the setting is assigned, saveSettings()
\* begins and awaits loadData()
ChangeSetting ==
    /\ settings.memory < MaxEdits
    /\ Len(inflight) < MaxInflight
    /\ settings' = [settings EXCEPT !.memory = @ + 1]
    /\ inflight' = Append(inflight, Write("saveSettings", "loadData", PluginData(0, 0)))
    /\ UNCHANGED <<sidebar, levelVars, scoreVars, matVars, historyVars, codecVars>>

\* saveSettings after loadData(): dataToSave is this.settings with the
\* assessmentHistory just read; it awaits saveData(dataToSave)
SaveSettingsLoaded ==
    /\ inflight # <<>>
    /\ Head(inflight).op = "saveSettings" /\ Head(inflight).pc = "loadData"
    /\ inflight' = Append(Tail(inflight),
                          Write("saveSettings", "saveData",
                                PluginData(settings.memory, settings.data.assessmentHistory)))
    /\ UNCHANGED <<settings, sidebar, levelVars, scoreVars, matVars, historyVars, codecVars>>

\* addRecord: the record is pushed, persist() hands the whole map to the
\* save callback, which awaits loadData()
AddRecordPersists ==
    /\ settings.history < MaxEdits
    /\ Len(inflight) < MaxInflight
    /\ settings' = [settings EXCEPT !.history = @ + 1]
    /\ inflight' = Append(inflight,
                          Write("saveHistory", "loadData", PluginData(0, settings.history + 1)))
    /\ UNCHANGED <<sidebar, levelVars, scoreVars, matVars, historyVars, codecVars>>

\* the save callback after loadData(): data.assessmentHistory = historyData;
\* it awaits saveData(data)
SaveHistoryLoaded ==
    /\ inflight # <<>>
    /\ Head(inflight).op = "saveHistory" /\ Head(inflight).pc = "loadData"
    /\ inflight' = Append(Tail(inflight),
                          Write("saveHistory", "saveData",
                                PluginData(settings.data.settings,
                                           Head(inflight).value.assessmentHistory)))
    /\ UNCHANGED <<settings, sidebar, levelVars, scoreVars, matVars, historyVars, codecVars>>

\* saveData(data) of either call writes the plugin data
SaveDataResolves ==
    /\ inflight # <<>>
    /\ Head(inflight).pc = "saveData"
    /\ inflight' = Tail(inflight)
    /\ settings' = [settings EXCEPT !.data = Head(inflight).value]
    /\ UNCHANGED <<sidebar, levelVars, scoreVars, matVars, historyVars, codecVars>>

NextData ==
    \/ ChangeSetting
    \/ SaveSettingsLoaded
    \/ AddRecordPersists
    \/ SaveHistoryLoaded
    \/ SaveDataResolves

SpecData == InitData /\ [][NextData]_vars

\* C26: under every interleaving of saveSettings with the history save
\* callback, once the calls have completed the stored assessmentHistory
\* holds every record the history service saved and the stored settings
\* are the latest settings.
C26_NeitherWriteReverts ==
    inflight = <<>> =>
        /\ settings.data.assessmentHistory = settings.history
        /\ settings.data.settings = settings.memory


-----------------------------------------------------------------------------
\* C27: in every reachable state of the history store, also directly after
\* initialize() has loaded data that was written under a larger maxPerNote,
\* the list of every document holds at most maxPerNote records.
C27_EveryListWithinCap ==
    \A notePath \in Docs : Len(getHistory(history, notePath)) <= maxPerNote


-----------------------------------------------------------------------------
\* The lines of a note that are not in its assessment block and are not empty.
OutsideLines(text) ==
    LET match == matchCalloutBlock(text)
    IN  IF match = None THEN SelectSeq(split(text, "\n"), IsNonEmpty)
        ELSE SelectSeq(split(match.before, "\n"), IsNonEmpty)
                \o SelectSeq(split(match.after, "\n"), IsNonEmpty)

\* C28: a save into a note that has a block changes only the block: every
\* line outside it, before and after, the line directly after the block
\* included, is there unchanged and in the same order after the save, and is
\* outside the block the note then has (so that the next save keeps it too).
C28_SaveKeepsOtherLines ==
    (callout # None /\ matchCalloutBlock(callout.into) # None) =>
        OutsideLines(content) = OutsideLines(callout.into)


-----------------------------------------------------------------------------
\* C29: UpdateMaturityUseCase.execute never throws, and a failure leaves the
\* level as it was: with neither a target nor a quality score, and when the
\* repository rejects, it returns success = false with an error,
\* newLevel = previousLevel = currentMaturity and isUpgrade = false, and the
\* note's stage is unchanged; whenever it returns success = true with
\* isUpgrade = true, newLevel is of higher order than previousLevel and the
\* repository was written with newLevel.
C29_FailureLeavesLevel ==
    request.kind = "call" =>
        LET input == request.input
            Failed == /\ output.success = FALSE
                      /\ output.error # "none"
                      /\ output.newLevel = input.currentMaturity
                      /\ output.previousLevel = input.currentMaturity
                      /\ output.isUpgrade = FALSE
                      /\ growthStage = request.stageBefore
        IN  /\ output.kind = "returned"
            /\ ~output.success => Failed
            /\ (input.targetMaturity = Absent /\ input.qualityScore = NoScore) =>
                   (Failed /\ repoCall = Absent)
            /\ (repoCall # Absent /\ ~request.repoOk) => Failed
            /\ (output.success /\ output.isUpgrade) =>
                   /\ StatedOrder[output.newLevel] > StatedOrder[output.previousLevel]
                   /\ output.previousLevel = input.currentMaturity
                   /\ repoCall = output.newLevel
                   /\ growthStage = output.newLevel

\* The repository rejected the write of tree over a sprout whose score allowed
\* it: a failure that reports sprout and leaves the note a sprout.
C29_Witness ==
    /\ request.kind = "call"
    /\ request.input.currentMaturity = "sprout"
    /\ request.input.targetMaturity = "tree"
    /\ request.input.qualityScore = 70
    /\ ~request.repoOk
    /\ request.stageBefore = "sprout"
    /\ repoCall = "tree"
    /\ output.success = FALSE
    /\ output.newLevel = "sprout"
    /\ growthStage = "sprout"


-----------------------------------------------------------------------------
(***************************************************************************)
(* SpecOverlap: initialize() and addRecord() calls on one history service  *)
(* that overlap at their awaits.  inflight holds the calls that await      *)
(* loadData (inside initialize) or saveData (inside persist).  A call runs *)
(* from one await to the next without interruption.                        *)
(***************************************************************************)

\* A call under way: at pc "loadData" it has passed the initialized check,
\* at pc "saveData" data is the map persist handed over.
Pending(op, pc, record, data) == [op |-> op, pc |-> pc, record |-> record, data |-> data]

InitOverlap ==
    /\ maxPerNote \in 1..MaxCap
    /\ stored \in StoredChoices
    /\ initialized = FALSE
    /\ history = NoRecords
    /\ entered = [initial |-> stored, calls |-> [d \in Docs |-> 0], pushed |-> NoRecords]
    /\ nextId = 0
    /\ lastDelta = None
    /\ inflight = {}
    /\ settings = None
    /\ sidebar = None
    /\ LevelIdle /\ ScoreIdle /\ MatIdle /\ CodecIdle

\* initialize() on a service that is not initialized: it awaits loadData()
BeginInitialize ==
    /\ ~initialized
    /\ nextId < MaxAdds
    /\ Cardinality(inflight) < MaxInflight
    /\ inflight' = inflight \cup {Pending("initialize", "loadData", [id |-> nextId + 1], None)}
    /\ nextId' = nextId + 1
    /\ UNCHANGED <<maxPerNote, stored, initialized, history, entered, lastDelta,
                   settings, sidebar, levelVars, scoreVars, matVars, codecVars>>

\* addRecord(record): on an initialized service it pushes, caps and awaits
\* persist(); otherwise it awaits initialize() first
BeginAddRecord ==
    /\ nextId < MaxAdds
    /\ Cardinality(inflight) < MaxInflight
    /\ \E notePath \in Docs, a \in HistoryAssessments :
          LET record == buildAssessmentRecord(a, nextId + 1, notePath, nextId + 1)
              pushed == [history EXCEPT ![notePath] = pushAndCap(@, record, maxPerNote)]
          IN  IF initialized
              THEN /\ history' = pushed
                   /\ entered' = [entered EXCEPT !.calls[notePath] = @ + 1,
                                                 !.pushed[notePath] = Append(@, record)]
                   /\ inflight' = inflight \cup {Pending("addRecord", "saveData", record, pushed)}
              ELSE /\ inflight' = inflight \cup {Pending("addRecord", "loadData", record, None)}
                   /\ entered' = [entered EXCEPT !.calls[notePath] = @ + 1]
                   /\ UNCHANGED history
    /\ nextId' = nextId + 1
    /\ UNCHANGED <<maxPerNote, stored, initialized, lastDelta,
                   settings, sidebar, levelVars, scoreVars, matVars, codecVars>>

\* loadData() resolves inside initialize(): the map is cleared and filled
\* from the data, initialized is set; an addRecord that awaited it goes on
\* to push its record and to await persist()
LoadDataResolves ==
    \E call \in inflight :
        /\ call.pc = "loadData"
        /\ initialized' = TRUE
        /\ IF call.op = "addRecord"
           THEN LET pushed == [LoadedMap(stored) EXCEPT
                                  ![call.record.notePath] =
                                      pushAndCap(@, call.record, maxPerNote)]
                IN  /\ history' = pushed
                    /\ entered' = [entered EXCEPT
                                      !.pushed[call.record.notePath] = Append(@, call.record)]
                    /\ inflight' = (inflight \ {call})
                                      \cup {Pending("addRecord", "saveData", call.record, pushed)}
           ELSE /\ history' = LoadedMap(stored)
                /\ inflight' = inflight \ {call}
                /\ UNCHANGED entered
        /\ UNCHANGED <<maxPerNote, stored, nextId, lastDelta,
                       settings, sidebar, levelVars, scoreVars, matVars, codecVars>>

\* saveData(data) resolves inside persist()
PersistResolves ==
    \E call \in inflight :
        /\ call.pc = "saveData"
        /\ stored' = call.data
        /\ inflight' = inflight \ {call}
        /\ UNCHANGED <<maxPerNote, initialized, history, entered, nextId, lastDelta,
                       settings, sidebar, levelVars, scoreVars, matVars, codecVars>>

NextOverlap ==
    \/ BeginInitialize
    \/ BeginAddRecord
    \/ LoadDataResolves
    \/ PersistResolves

SpecOverlap == InitOverlap /\ [][NextOverlap]_vars

\* C30: under every interleaving of overlapping initialize() and addRecord()
\* calls on a store that was not initialized, a record that addRecord appended
\* in memory leaves the list only by the cap's eviction of the oldest: the
\* maxPerNote records appended last for a document are all in its list, and
\* an initialize() that completes later neither clears nor overwrites them.
C30_AppendedRecordStays ==
    \A notePath \in Docs :
        LET kept == LastN(entered.pushed[notePath], maxPerNote)
        IN  \A i \in 1..Len(kept) :
                \E j \in 1..Len(history[notePath]) : history[notePath][j] = kept[i]

=============================================================================
